---------------------------- MODULE Spec2Model ----------------------------
(***************************************************************************)
(* The 3D automaton compute core of cellular-automata-viewer: the CPU      *)
(* reference engine (automataLogic3D.js), the texture engine               *)
(* (automataLogic3DGPU.js) and the tensor engine (automataLogic3DTF.js),   *)
(* each driven through its exported step function.                         *)
(*                                                                         *)
(* A JavaScript array is a sequence; JavaScript index i is element i+1.    *)
(* A grid is grid[x][y][z]: a sequence of planes, each a sequence of rows, *)
(* each a sequence of cells.  An array element that is absent (a hole, or  *)
(* undefined) is the empty sequence: neither has an element at any index,  *)
(* and the code reads the length of the first plane and first row only.    *)
(***************************************************************************)
EXTENDS Integers, Sequences, FiniteSets, TLC

VARIABLES gpu, tf, last, chain, nfresh, unormHalf, wgpu, probe, wgslUniformArrays,
          heap, held, args, ret, app

\* the compute-buffer engine's module state, the latest answer of its
\* capability probe, and what the browser's WGSL compiler does with an
\* array<u32, 8> member of a uniform struct
computeVars == <<wgpu, probe, wgslUniformArrays>>

\* what no engine's step touches: the caller's arrays as objects and the
\* references the caller holds, the arguments and the result of a call of a
\* function that keeps no state, and the App component
restVars == <<heap, held, args, ret, app>>

vars == <<gpu, tf, last, chain, nfresh, unormHalf, computeVars, restVars>>

(***************************************************************************)
(* Bounds of the exploration.                                              *)
(***************************************************************************)
\* calls with a grid of the caller's own choosing, per behaviour
MaxFresh == 2
\* calls that pass the previous call's result back in, per chain
MaxFeed == 2
\* cells the caller overwrites in a grid a step returned, per behaviour
MaxWrites == 1
MaxRow == 4
MaxGrids == 3
MaxChecks == 2
MaxInFlight == 2

(***************************************************************************)
(* JavaScript values.                                                      *)
(***************************************************************************)
\* the value read from an index that an array does not have
Undefined == -1

\* an argument of a step function: null, or an array
JsNull == [null |-> TRUE, a |-> <<>>]
Arr(a) == [null |-> FALSE, a |-> a]

\* how a call ends: it returns a grid, or a TypeError leaves it
Returned(a) == [throws |-> FALSE, a |-> a]
Thrown == [throws |-> TRUE, a |-> <<>>]

Includes(s, v) == \E i \in 1..Len(s) : s[i] = v

At(a, x, y, z) == a[x + 1][y + 1][z + 1]

HasRow(a, x, y) == y < Len(a[x + 1])

\* a[x][y][z] where a[x][y] is an array: the cell, or undefined past its end
Read(a, x, y, z) ==
  IF z < Len(a[x + 1][y + 1]) THEN At(a, x, y, z) ELSE Undefined

\* some a[x][y] with x, y inside the first plane's extent is not an array:
\* reading its [z] is the TypeError
RowMissing(a) ==
  \E x \in 0..(Len(a) - 1) : \E y \in 0..(Len(a[1]) - 1) : ~HasRow(a, x, y)

Dims(a) == <<Len(a), Len(a[1]), Len(a[1][1])>>

(***************************************************************************)
(* Rule table.                                                             *)
(***************************************************************************)
BS(b, s) == [type |-> "bs", birth |-> b, survival |-> s]

RULE_DEFINITIONS ==
  [n \in {"conway3d", "life3d", "stability", "crystal", "pyroclastic",
          "diamoeba3d", "hyper", "briansbrain3d", "checkerboard"} |->
     CASE n = "conway3d" -> BS(<<5, 6, 7>>, <<4, 5, 6>>)
       [] n = "life3d" -> BS(<<4, 5>>, <<5, 6, 7>>)
       [] n = "stability" -> BS(<<4, 5, 6, 7>>, <<3, 4, 5, 6>>)
       [] n = "crystal" -> BS(<<5, 6, 7, 8>>, <<5, 6, 7, 8>>)
       [] n = "pyroclastic" -> BS(<<4, 5, 6, 7>>, <<6, 7, 8>>)
       [] n = "diamoeba3d" -> BS(<<5, 6, 7, 8>>, <<5, 6, 7, 8, 9, 10>>)
       [] n = "hyper" -> BS(<<5, 6, 7>>, <<5, 6, 7, 8, 9, 10>>)
       [] n = "briansbrain3d" -> [type |-> "special", birth |-> <<>>, survival |-> <<>>]
       [] n = "checkerboard" -> [type |-> "static", birth |-> <<>>, survival |-> <<>>]]

RuleKeys == DOMAIN RULE_DEFINITIONS

BSRuleKeys == {n \in RuleKeys : RULE_DEFINITIONS[n].type = "bs"}

\* RULE_DEFINITIONS is an object literal: a name it does not define itself is
\* looked up on Object.prototype, and these names are found there
ObjectPrototypeKeys ==
  {"constructor", "toString", "toLocaleString", "valueOf", "hasOwnProperty",
   "isPrototypeOf", "propertyIsEnumerable", "__proto__"}

\* RULE_DEFINITIONS[ruleName] || RULE_DEFINITIONS.conway3d
\* an inherited property is truthy and has no birth and no survival
RuleLookup(ruleName) ==
  IF ruleName \in RuleKeys THEN RULE_DEFINITIONS[ruleName]
  ELSE IF ruleName \in ObjectPrototypeKeys
       THEN [type |-> "inherited", birth |-> <<>>, survival |-> <<>>]
       ELSE RULE_DEFINITIONS["conway3d"]

(***************************************************************************)
(* CPU reference engine (automataLogic3D.js).                              *)
(***************************************************************************)
createEmpty3DGrid(sizeX, sizeY, sizeZ) ==
  [x \in 1..sizeX |-> [y \in 1..sizeY |-> [z \in 1..sizeZ |-> 0]]]

\* the 27 iterations of the dx, dy, dz loops, dx outermost
LoopOffset(i) ==
  <<((i - 1) \div 9) - 1, (((i - 1) \div 3) % 3) - 1, ((i - 1) % 3) - 1>>

RECURSIVE CountLoop(_, _, _, _, _)
CountLoop(grid, x, y, z, i) ==
  IF i > 27 THEN 0
  ELSE LET d == LoopOffset(i)
           sizeX == Len(grid)
           sizeY == Len(grid[1])
           sizeZ == Len(grid[1][1])
           nx == (x + d[1] + sizeX) % sizeX
           ny == (y + d[2] + sizeY) % sizeY
           nz == (z + d[3] + sizeZ) % sizeZ
           hit == IF d = <<0, 0, 0>> THEN 0
                  ELSE IF Read(grid, nx, ny, nz) = 1 THEN 1 ELSE 0
       IN hit + CountLoop(grid, x, y, z, i + 1)

\* a count that stops at the borders of the grid instead of wrapping: the
\* variant that C5 has to tell from countLiveNeighbors3D
countLiveNeighbors3DNoWrap(grid, x, y, z) ==
  Cardinality({i \in 1..27 :
     LET d == LoopOffset(i)
     IN /\ d # <<0, 0, 0>>
        /\ x + d[1] >= 0 /\ x + d[1] < Len(grid)
        /\ y + d[2] >= 0 /\ y + d[2] < Len(grid[1])
        /\ z + d[3] >= 0 /\ z + d[3] < Len(grid[1][1])
        /\ Read(grid, x + d[1], y + d[2], z + d[3]) = 1})

countLiveNeighbors3D(grid, x, y, z) == CountLoop(grid, x, y, z, 1)

calculateBriansBrain3D(currentGrid) ==
  LET sizeX == Len(currentGrid)
      sizeY == Len(currentGrid[1])
      sizeZ == Len(currentGrid[1][1])
  IN [x \in 1..sizeX |-> [y \in 1..sizeY |-> [z \in 1..sizeZ |->
        LET cellState == Read(currentGrid, x - 1, y - 1, z - 1)
        IN IF cellState = 0
           THEN IF countLiveNeighbors3D(currentGrid, x - 1, y - 1, z - 1) = 2
                THEN 1 ELSE 0
           ELSE IF cellState = 1 THEN 2
           ELSE 0]]]

\* the rule applied with every cell that is not dead taken as alive: the
\* variant that C1 has to tell from StandardRuleCPU
StandardRuleCPUNonZeroAlive(currentGrid, rule) ==
  [x \in 1..Len(currentGrid) |-> [y \in 1..Len(currentGrid[1]) |->
     [z \in 1..Len(currentGrid[1][1]) |->
        LET liveNeighbors == countLiveNeighbors3D(currentGrid, x - 1, y - 1, z - 1)
            cellIsAlive == Read(currentGrid, x - 1, y - 1, z - 1) > 0
        IN IF cellIsAlive
           THEN IF Includes(rule.survival, liveNeighbors) THEN 1 ELSE 0
           ELSE IF Includes(rule.birth, liveNeighbors) THEN 1 ELSE 0]]]

StandardRuleCPU(currentGrid, rule) ==
  LET sizeX == Len(currentGrid)
      sizeY == Len(currentGrid[1])
      sizeZ == Len(currentGrid[1][1])
  IN [x \in 1..sizeX |-> [y \in 1..sizeY |-> [z \in 1..sizeZ |->
        LET liveNeighbors == countLiveNeighbors3D(currentGrid, x - 1, y - 1, z - 1)
            cellIsAlive == Read(currentGrid, x - 1, y - 1, z - 1) = 1
        IN IF cellIsAlive
           THEN IF Includes(rule.survival, liveNeighbors) THEN 1 ELSE 0
           ELSE IF Includes(rule.birth, liveNeighbors) THEN 1 ELSE 0]]]

\* !currentGrid || currentGrid.length === 0 || !currentGrid[0] || ...
InvalidGrid(in) ==
  \/ in.null
  \/ Len(in.a) = 0
  \/ Len(in.a[1]) = 0
  \/ Len(in.a[1][1]) = 0

calculateNextGeneration3D(in, ruleName) ==
  IF InvalidGrid(in) THEN Returned(createEmpty3DGrid(1, 1, 1))
  ELSE IF RowMissing(in.a) THEN Thrown
  ELSE IF ruleName = "briansbrain3d" THEN Returned(calculateBriansBrain3D(in.a))
  ELSE IF ruleName = "checkerboard"
       THEN Returned([x \in 1..Len(in.a) |-> [y \in 1..Len(in.a[1]) |->
                        [z \in 1..Len(in.a[1][1]) |-> Read(in.a, x - 1, y - 1, z - 1)]]])
  ELSE LET rule == RuleLookup(ruleName)
       IN IF rule.type = "inherited" THEN Thrown
          ELSE Returned(StandardRuleCPU(in.a, rule))

(***************************************************************************)
(* Texture engine (automataLogic3DGPU.js).                                 *)
(*                                                                         *)
(* A texture or render target is the sequence of its pixels' red bytes,    *)
(* pixel (column x, row z*sizeY + y) at index z*sizeY*sizeX + y*sizeX + x. *)
(* The other channels are constant (0, 0, 255) and are left out.  A        *)
(* texture's sequence is what a shader samples from it: the data of its    *)
(* image at the last time the texture was flagged for upload.              *)
(***************************************************************************)
\* the sum a 27-iteration loop accumulates, term[i] being added by iteration i
RECURSIVE SumLoop(_, _)
SumLoop(term, i) == IF i > 27 THEN 0 ELSE term[i] + SumLoop(term, i + 1)

\* the array filled by a loop that stores element[i] at index i - 1, i = 1 .. n
RECURSIVE FilledRange(_, _, _)
FilledRange(element, lo, hi) ==
  IF lo > hi THEN <<>>
  ELSE IF lo = hi THEN <<element[lo]>>
  ELSE LET mid == (lo + hi) \div 2
       IN FilledRange(element, lo, mid) \o FilledRange(element, mid + 1, hi)

Filled(element, n) == FilledRange(element, 1, n)

Total(size) == size[1] * size[2] * size[3]

\* (z * sliceSize + y * sizeX + x), the pixel of cell (x, y, z)
TexIndex(size, x, y, z) == z * (size[1] * size[2]) + y * size[1] + x

\* the cell of pixel k, as the shader's main() decodes it from vUv
PixelCell(size, k) ==
  <<k % size[1], (k \div size[1]) % size[2], (k \div size[1]) \div size[2]>>

\* a store into a Uint8Array
ToUint8(v) == v % 256

\* data[index] = gridData[x][y][z] * 255, for every cell
TextureData(gridData) ==
  LET size == Dims(gridData)
  IN Filled([i \in 1..Total(size) |->
              LET c == PixelCell(size, i - 1)
              IN ToUint8(At(gridData, c[1], c[2], c[3]) * 255)], Total(size))

\* a shader output in [0, 1], given in halves, written to an 8-bit channel
ToUnorm8(halves, half) ==
  IF halves = 0 THEN 0 ELSE IF halves = 2 THEN 255 ELSE half

\* getCellState(pos): the red byte at pos, each coordinate wrapped by mod
getCellState(tState, size, x, y, z) ==
  tState[TexIndex(size, x % size[1], y % size[2], z % size[3]) + 1]

\* the arrays with slot = value instead of slot = value - 3: the variant
\* that C24 has to tell from PresenceArray
PresenceArrayFromZero(values) ==
  [i \in 1..8 |->
     IF \E j \in 1..Len(values) :
          values[j] >= 3 /\ values[j] <= 10 /\ values[j] = i - 1
     THEN 1 ELSE 0]

\* the arrays setRule builds from a rule's birth or survival list
PresenceArray(values) ==
  [i \in 1..8 |->
     IF \E j \in 1..Len(values) :
          values[j] >= 3 /\ values[j] <= 10 /\ values[j] - 3 = i - 1
     THEN 1 ELSE 0]

\* the test both standard shaders make on a presence array:
\* neighbors >= 3 && neighbors <= 10 and the slot neighbors - 3 holds 1
PresenceDecides(values, neighbors) ==
  neighbors >= 3 /\ neighbors <= 10 /\ values[neighbors - 3 + 1] = 1

\* standardFragmentShader, for the pixel of cell (x, y, z); the result in halves
standardFragmentShader(tState, size, birthValues, survivalValues, x, y, z) ==
  LET currentState == getCellState(tState, size, x, y, z)
      \* neighbors sums the red values, byte/255 each; floorNeighbors is its floor
      bytes == SumLoop([i \in 1..27 |->
                 LET d == LoopOffset(i)
                 IN IF d = <<0, 0, 0>> THEN 0
                    ELSE getCellState(tState, size, x + d[1], y + d[2], z + d[3])], 1)
      floorNeighbors == bytes \div 255
  IN IF 2 * currentState > 255
     THEN IF PresenceDecides(survivalValues, floorNeighbors) THEN 2 ELSE 0
     ELSE IF PresenceDecides(birthValues, floorNeighbors) THEN 2 ELSE 0

\* briansBrainFragmentShader; the result in halves (1 is the dying 0.5)
briansBrainFragmentShader(tState, size, x, y, z) ==
  LET currentState == getCellState(tState, size, x, y, z)
      onNeighbors == SumLoop([i \in 1..27 |->
                 LET d == LoopOffset(i)
                 IN IF d = <<0, 0, 0>> THEN 0
                    ELSE IF 4 * getCellState(tState, size, x + d[1], y + d[2], z + d[3]) > 765
                         THEN 1 ELSE 0], 1)
  IN IF 4 * currentState < 255
     THEN IF onNeighbors = 2 THEN 2 ELSE 0
     ELSE IF 4 * currentState > 765 THEN 1 ELSE 0

\* one render of the full-screen quad with the standard material
RenderStandard(tState, size, birthValues, survivalValues, half) ==
  Filled([i \in 1..Total(size) |->
           LET c == PixelCell(size, i - 1)
           IN ToUnorm8(standardFragmentShader(tState, size, birthValues,
                                              survivalValues, c[1], c[2], c[3]),
                       half)], Total(size))

RenderBriansBrain(tState, size, half) ==
  Filled([i \in 1..Total(size) |->
           LET c == PixelCell(size, i - 1)
           IN ToUnorm8(briansBrainFragmentShader(tState, size, c[1], c[2], c[3]),
                       half)], Total(size))

\* copyFragmentShader: gl_FragColor = texture2D(tState, vUv)
RenderCopy(tState, size) == Filled([i \in 1..Total(size) |-> tState[i]], Total(size))

\* the state of a CellularAutomataGPU after its constructor; exists is
\* gpuInstance !== null, built counts the renderers (each with its textures,
\* render targets and materials) that initialize has created
NewGPU ==
  [exists |-> FALSE, initialized |-> FALSE, built |-> 0, size |-> <<0, 0, 0>>,
   currentRule |-> "conway3d", currentTexture |-> "A",
   textureA |-> <<>>, textureB |-> <<>>,
   renderTargetA |-> <<>>, renderTargetB |-> <<>>,
   birthValues |-> <<>>, survivalValues |-> <<>>]

\* initialize(gridData, ruleName): textureB is a clone of textureA, which
\* shares textureA's image and is flagged for upload by Texture.copy; the
\* render targets start cleared; the last lines render the scene once into
\* renderTargetA with the standard material and the default rule
GPUInitialize(s, gridData, ruleName, half) ==
  LET size == Dims(gridData)
      data == TextureData(gridData)
      defaultRule == RULE_DEFINITIONS["conway3d"]
      birthValues == PresenceArray(defaultRule.birth)
      survivalValues == PresenceArray(defaultRule.survival)
  IN [s EXCEPT !.exists = TRUE,
               !.built = @ + 1,
               !.currentRule = ruleName,
               !.size = size,
               !.textureA = data,
               !.textureB = data,
               !.birthValues = birthValues,
               !.survivalValues = survivalValues,
               !.renderTargetA = RenderStandard(data, size, birthValues,
                                                survivalValues, half),
               !.renderTargetB = Filled([i \in 1..Total(size) |-> 0], Total(size)),
               !.initialized = TRUE]

\* result[x][y][z] = pixelBuffer[index] > 127 ? 1 : 0
GPUReadback(pixelBuffer, size) ==
  [x \in 1..size[1] |-> [y \in 1..size[2] |-> [z \in 1..size[3] |->
     IF pixelBuffer[TexIndex(size, x - 1, y - 1, z - 1) + 1] > 127 THEN 1 ELSE 0]]]

\* computeNextGeneration() of an initialized instance: the session after it
\* and how it ends.  setRule throws on a rule without birth and survival,
\* before anything is rendered.
GPUComputeNextGeneration(s, half) ==
  LET srcTexture == IF s.currentTexture = "A" THEN s.textureA ELSE s.textureB
      rule == RuleLookup(s.currentRule)
      isStandard == s.currentRule # "briansbrain3d" /\ s.currentRule # "checkerboard"
      birthValues == IF isStandard THEN PresenceArray(rule.birth) ELSE s.birthValues
      survivalValues == IF isStandard THEN PresenceArray(rule.survival)
                        ELSE s.survivalValues
      pixels == IF s.currentRule = "briansbrain3d"
                THEN RenderBriansBrain(srcTexture, s.size, half)
                ELSE IF s.currentRule = "checkerboard"
                THEN RenderCopy(srcTexture, s.size)
                ELSE RenderStandard(srcTexture, s.size, birthValues,
                                    survivalValues, half)
  IN IF isStandard /\ rule.type = "inherited"
     THEN [gpu |-> s, out |-> Thrown]
     ELSE [gpu |-> [s EXCEPT !.birthValues = birthValues,
                              !.survivalValues = survivalValues,
                              !.renderTargetA = IF s.currentTexture = "A"
                                                THEN s.renderTargetA ELSE pixels,
                              !.renderTargetB = IF s.currentTexture = "A"
                                                THEN pixels ELSE s.renderTargetB,
                              !.currentTexture = IF s.currentTexture = "A"
                                                 THEN "B" ELSE "A"],
           out |-> Returned(GPUReadback(pixels, s.size))]

\* calculateNextGeneration3DGPU(currentGrid, ruleName) on the module's
\* gpuInstance s
calculateNextGeneration3DGPU(s, in, ruleName, half) ==
  IF InvalidGrid(in)
  THEN [gpu |-> s, out |-> Returned(createEmpty3DGrid(1, 1, 1))]
  ELSE LET size == Dims(in.a)
           ready ==
             IF ~s.initialized \/ s.size # size \/ s.currentRule # ruleName
             THEN GPUInitialize(s, in.a, ruleName, half)
             ELSE IF s.currentTexture = "A"
                  THEN [s EXCEPT !.textureA = TextureData(in.a)]
                  ELSE [s EXCEPT !.textureB = TextureData(in.a)]
       IN GPUComputeNextGeneration(ready, half)

(***************************************************************************)
(* Tensor engine (automataLogic3DTF.js).                                   *)
(*                                                                         *)
(* A tensor is the flat sequence of its elements, element [x][y][z] at     *)
(* index (x*sizeY + y)*sizeZ + z.  Elements are multiples of 0.5 and are   *)
(* kept doubled: 0, 1 (the dying 0.5), 2 (the value 1.0), 4 (the value     *)
(* 2.0).                                                                   *)
(***************************************************************************)
FlatIndex(size, x, y, z) == (x * size[2] + y) * size[3] + z

\* the cell of index k were the fill loops nested as the texture engine's
FlatCellXInnermost(size, k) == PixelCell(size, k)

FlatCell(size, k) ==
  <<k \div (size[2] * size[3]), (k \div size[3]) % size[2], k % size[3]>>

\* flatData[i++] = gridData[x][y][z]; tf.tensor3d(flatData, [sizeX, sizeY, sizeZ])
TensorData(gridData) ==
  LET size == Dims(gridData)
  IN Filled([i \in 1..Total(size) |->
              LET c == FlatCell(size, i - 1)
              IN 2 * At(gridData, c[1], c[2], c[3])], Total(size))

\* createConvolutionKernel: 3x3x3, all 1 except the centre
convKernel == [i \in 1..27 |-> IF LoopOffset(i) = <<0, 0, 0>> THEN 0 ELSE 1]

\* tf.conv3d(grid, convKernel, [1,1,1], 'same') at (x, y, z): 'same' pads the
\* input with zeros, so a tap outside the grid contributes nothing
conv3d(gridTensor, size, x, y, z) ==
  SumLoop([i \in 1..27 |->
            LET d == LoopOffset(i)
                nx == x + d[1]
                ny == y + d[2]
                nz == z + d[3]
            IN IF nx >= 0 /\ nx < size[1] /\ ny >= 0 /\ ny < size[2]
                  /\ nz >= 0 /\ nz < size[3]
               THEN convKernel[i] * gridTensor[FlatIndex(size, nx, ny, nz) + 1]
               ELSE 0], 1)

\* processStandardRule(birthValues, survivalValues)
processStandardRule(gridTensor, size, birthValues, survivalValues) ==
  Filled([k \in 1..Total(size) |->
     LET c == FlatCell(size, k - 1)
         neighborCount == conv3d(gridTensor, size, c[1], c[2], c[3])
         aliveMask == gridTensor[k] > 1
         deadMask == gridTensor[k] < 1
         birthUpdate ==
           IF \E i \in 0..26 : /\ Includes(birthValues, i)
                               /\ deadMask /\ neighborCount = 2 * i
           THEN 2 ELSE 0
         survivalUpdate ==
           IF \E i \in 0..26 : /\ Includes(survivalValues, i)
                               /\ aliveMask /\ neighborCount = 2 * i
           THEN 2 ELSE 0
     IN birthUpdate + survivalUpdate], Total(size))

\* processBriansBrainRule()
processBriansBrainRule(gridTensor, size) ==
  Filled([k \in 1..Total(size) |->
     LET c == FlatCell(size, k - 1)
         neighborCount == conv3d(gridTensor, size, c[1], c[2], c[3])
         deadMask == 2 * gridTensor[k] < 1
         aliveMask == 2 * gridTensor[k] > 3
         birthUpdate == IF deadMask /\ neighborCount = 2 * 2 THEN 2 ELSE 0
         dyingUpdate == IF aliveMask THEN 1 ELSE 0
     IN birthUpdate + dyingUpdate], Total(size))

\* Math.round of a multiple of 0.5
MathRound(doubled) == (doubled + 1) \div 2

\* the conversion of nextGenTensor back to a grid
TFReadback(flatData, size, currentRule) ==
  [x \in 1..size[1] |-> [y \in 1..size[2] |-> [z \in 1..size[3] |->
     LET value == flatData[FlatIndex(size, x - 1, y - 1, z - 1) + 1]
     IN IF currentRule = "briansbrain3d"
        THEN IF 2 * value > 3 THEN 1 ELSE IF 2 * value > 1 THEN 2 ELSE 0
        ELSE MathRound(value)]]]

\* the state of a CellularAutomataTF after its constructor; exists is
\* tfInstance !== null, built counts the runs of initialize.  handles says
\* of this.gridTensor and this.convKernel whether it is null, a tensor, or a
\* tensor that was disposed; tensors is tf.memory().numTensors, the tensors
\* made and not disposed; misused says that a disposed tensor was disposed
\* again or read.
NewTF ==
  [exists |-> FALSE, initialized |-> FALSE, built |-> 0, size |-> <<0, 0, 0>>,
   currentRule |-> "conway3d", gridTensor |-> <<>>,
   handles |-> [gridTensor |-> "null", convKernel |-> "null"],
   tensors |-> 0, misused |-> FALSE]

\* this[field].dispose(), which nothing is kept of
TensorDisposeLeaking(s, field) == s

\* this[field].dispose()
TensorDispose(s, field) ==
  IF s.handles[field] = "tensor"
  THEN [s EXCEPT !.handles[field] = "disposed", !.tensors = @ - 1]
  ELSE [s EXCEPT !.misused = TRUE]

\* this[field] = a tensor just made
TensorAssign(s, field) ==
  [s EXCEPT !.handles[field] = "tensor", !.tensors = @ + 1]

\* an operation that reads this[field]
TensorRead(s, field) ==
  IF s.handles[field] = "tensor" THEN s ELSE [s EXCEPT !.misused = TRUE]

TFInitialize(s, gridData, ruleName) ==
  LET Released(t, field) ==
        IF t.handles[field] # "null" THEN TensorDispose(t, field) ELSE t
      Made(t) ==
        TensorAssign(TensorAssign(t, "gridTensor"), "convKernel")
  IN [Made(Released(Released(s, "gridTensor"), "convKernel")) EXCEPT
        !.exists = TRUE,
        !.built = @ + 1,
        !.currentRule = ruleName,
        !.size = Dims(gridData),
        !.gridTensor = TensorData(gridData),
        !.initialized = TRUE]

\* updateGrid(gridData) of an initialized instance
updateGrid(s, gridData) ==
  IF Dims(gridData) # s.size
  THEN TFInitialize(s, gridData, s.currentRule)
  ELSE [TensorAssign(TensorDispose(s, "gridTensor"), "gridTensor") EXCEPT
          !.gridTensor = TensorData(gridData)]

\* computeNextGeneration() of an initialized instance.  A rule without birth
\* and survival makes processStandardRule throw at birthValues.forEach, with
\* gridTensor as it was.
TFComputeNextGeneration(s) ==
  LET rule == RuleLookup(s.currentRule)
      nextGenTensor ==
        IF s.currentRule = "briansbrain3d"
        THEN processBriansBrainRule(s.gridTensor, s.size)
        ELSE IF s.currentRule = "checkerboard" THEN s.gridTensor
        ELSE processStandardRule(s.gridTensor, s.size, rule.birth, rule.survival)
      \* the tensors a tf.tidy callback made are disposed when it returns or
      \* throws, but the one it returns; clone() makes one tensor
      read == IF s.currentRule = "checkerboard" THEN TensorRead(s, "gridTensor")
              ELSE TensorRead(TensorRead(s, "gridTensor"), "convKernel")
      \* this.gridTensor.dispose(); this.gridTensor = nextGenTensor
      Kept(t) == TensorAssign(TensorDispose(t, "gridTensor"), "gridTensor")
  IN IF s.currentRule # "briansbrain3d" /\ s.currentRule # "checkerboard"
        /\ rule.type = "inherited"
     THEN [tf |-> read, out |-> Thrown]
     ELSE [tf |-> [Kept(read) EXCEPT !.gridTensor = nextGenTensor],
           out |-> Returned(TFReadback(nextGenTensor, s.size, s.currentRule))]

\* calculateNextGeneration3DTF(currentGrid, ruleName) on the module's tfInstance s
calculateNextGeneration3DTF(s, in, ruleName) ==
  IF InvalidGrid(in)
  THEN [tf |-> s, out |-> Returned(createEmpty3DGrid(1, 1, 1))]
  ELSE LET ready ==
             IF ~s.initialized \/ s.size # Dims(in.a) \/ s.currentRule # ruleName
             THEN TFInitialize(s, in.a, ruleName)
             ELSE updateGrid(s, in.a)
       IN TFComputeNextGeneration(ready)

(***************************************************************************)
(* Compute-buffer engine (automataLogic3DWEBGPU.js).                       *)
(*                                                                         *)
(* A storage buffer is the sequence of its 32-bit words.  The exported     *)
(* step is an async function: Returned is the grid its promise resolves    *)
(* to, Thrown is a rejected promise.  The step imports the texture         *)
(* engine's step and so works on the texture engine's gpuInstance.         *)
(***************************************************************************)
\* grid && Array.isArray(grid) && grid.length > 0 && Array.isArray(grid[0])
\* && grid[0].length > 0 && Array.isArray(grid[0][0]) && grid[0][0].length > 0
isValid3DGrid(in) ==
  /\ ~in.null
  /\ Len(in.a) > 0
  /\ Len(in.a[1]) > 0
  /\ Len(in.a[1][1]) > 0

\* the module's variables after the module is loaded; shader is the WGSL
\* source rulePipeline was created from, uniformBuffer holds the
\* 20 words written to uniformBuffer
NewWebGPU ==
  [webGPUInitialized |-> FALSE, gridSize |-> <<0, 0, 0>>,
   currentBufferIndex |-> 0, stateCellBuffers |-> << <<>>, <<>> >>,
   resultStagingBuffer |-> <<>>, shader |-> "none",
   uniformBuffer |-> <<>>, generationCount |-> 0]

\* computeNextGenerationWebGPU returns null
ReturnedNull == Returned(<<>>)

\* the cell that iteration k of the z, y, x loops (x innermost) visits, which
\* is the cell whose value is stored at, or read from, cellIndex k
ZYXLoopCell(size, k) ==
  <<k % size[1], (k \div size[1]) % size[2], k \div (size[1] * size[2])>>

\* cellData[cellIndex++] = grid[x][y][z], a Uint32Array
CellData(grid) ==
  LET size == Dims(grid)
  IN Filled([i \in 1..Total(size) |->
              LET c == ZYXLoopCell(size, i - 1)
              IN At(grid, c[1], c[2], c[3])], Total(size))

\* a buffer as createBuffer makes it
ZeroBuffer(n) == Filled([i \in 1..n |-> 0], n)

\* setupBuffers(grid): new buffers, the grid in the first one
setupBuffers(w, grid) ==
  [w EXCEPT !.stateCellBuffers = <<CellData(grid), ZeroBuffer(Total(w.gridSize))>>,
            !.uniformBuffer = ZeroBuffer(20),
            !.resultStagingBuffer = ZeroBuffer(Total(w.gridSize)),
            !.currentBufferIndex = 0]

\* createComputePipelines(ruleName): the uniform data and the shader chosen.
\* rule.birth.forEach throws for a rule without birth and survival.
createComputePipelines(w, ruleName) ==
  LET rule == RuleLookup(ruleName)
      isBS == ~(rule.type = "special" /\ ruleName = "briansbrain3d")
              /\ rule.type # "static"
      birthValues == IF isBS THEN PresenceArray(rule.birth) ELSE ZeroBuffer(8)
      survivalValues == IF isBS THEN PresenceArray(rule.survival) ELSE ZeroBuffer(8)
      shader == IF rule.type # "special" /\ ruleName # "checkerboard"
                THEN "standard"
                ELSE IF ruleName = "briansbrain3d" THEN "brain" ELSE "copy"
  IN IF isBS /\ rule.type = "inherited"
     THEN [throws |-> TRUE, wgpu |-> w]
     ELSE [throws |-> FALSE,
           wgpu |-> [w EXCEPT !.uniformBuffer =
                                <<w.gridSize[1], w.gridSize[2], w.gridSize[3], 0>>
                                \o birthValues \o survivalValues,
                              !.shader = shader]]

\* initializeWebGPU(grid, ruleName); hasWebGPU says whether navigator.gpu
\* gives an adapter and a device
initializeWebGPU(w, grid, ruleName, hasWebGPU) ==
  IF w.webGPUInitialized THEN [ok |-> TRUE, wgpu |-> w]
  ELSE IF ~hasWebGPU THEN [ok |-> FALSE, wgpu |-> w]
  ELSE LET Piped(buffered, piped) ==
             IF piped.throws THEN [ok |-> FALSE, wgpu |-> buffered]
             ELSE [ok |-> TRUE,
                   wgpu |-> [piped.wgpu EXCEPT !.webGPUInitialized = TRUE]]
           Buffered(buffered) ==
             Piped(buffered, createComputePipelines(buffered, ruleName))
       IN Buffered(setupBuffers([w EXCEPT !.gridSize = Dims(grid)], grid))

\* the struct Uniforms of the standard shader as WGSL lays it out where it
\* accepts it: gridSize at byte 0, birthRule at byte 12, survivalRule at
\* byte 44 (an array<u32, 8> is aligned to 4 bytes)
UniformsBirthRule(uniformBuffer) == [i \in 1..8 |-> uniformBuffer[3 + i]]

UniformsSurvivalRule(uniformBuffer) == [i \in 1..8 |-> uniformBuffer[11 + i]]

\* the word of cell (x + dx, y + dy, z + dz), wrapped
NeighborWord(cellStateIn, size, x, y, z, d) ==
  cellStateIn[TexIndex(size, (x + d[1] + size[1]) % size[1],
                             (y + d[2] + size[2]) % size[2],
                             (z + d[3] + size[3]) % size[3]) + 1]

\* main() of the standard shader for invocation (x, y, z) inside the grid
standardComputeShader(cellStateIn, uniformBuffer, x, y, z) ==
  LET size == <<uniformBuffer[1], uniformBuffer[2], uniformBuffer[3]>>
      currentState == cellStateIn[TexIndex(size, x, y, z) + 1]
      neighbors == SumLoop([i \in 1..27 |->
                     IF LoopOffset(i) = <<0, 0, 0>> THEN 0
                     ELSE NeighborWord(cellStateIn, size, x, y, z, LoopOffset(i))], 1)
  IN IF currentState = 1
     THEN IF PresenceDecides(UniformsSurvivalRule(uniformBuffer), neighbors)
          THEN 1 ELSE 0
     ELSE IF PresenceDecides(UniformsBirthRule(uniformBuffer), neighbors)
          THEN 1 ELSE 0

\* main() of the Brian's Brain shader: 2 is alive, 1 is dying
briansBrainComputeShader(cellStateIn, uniformBuffer, x, y, z) ==
  LET size == <<uniformBuffer[1], uniformBuffer[2], uniformBuffer[3]>>
      currentState == cellStateIn[TexIndex(size, x, y, z) + 1]
      aliveNeighbors == SumLoop([i \in 1..27 |->
                     IF LoopOffset(i) = <<0, 0, 0>> THEN 0
                     ELSE IF NeighborWord(cellStateIn, size, x, y, z, LoopOffset(i)) = 2
                          THEN 1 ELSE 0], 1)
  IN IF currentState = 2 THEN 1
     ELSE IF currentState = 1 THEN 0
     ELSE IF aliveNeighbors = 2 THEN 2 ELSE 0

\* the commands of one step, submitted: the pass writes the other buffer and
\* the copy fills the staging buffer.  A pipeline made from a shader the
\* compiler rejected is invalid, and so is the command buffer that sets it:
\* nothing of it runs.  The copy shader stores cellStateIn[index] at the same
\* index of cellStateOut; an index past the end is clamped or dropped.
SubmitCommands(w, layout) ==
  LET size == w.gridSize
      outputBufferIndex == 1 - w.currentBufferIndex
      Dispatched(cellStateIn) ==
        Filled([i \in 1..Total(size) |->
                 LET c == ZYXLoopCell(size, i - 1)
                 IN IF w.shader = "standard"
                    THEN standardComputeShader(cellStateIn, w.uniformBuffer,
                                               c[1], c[2], c[3])
                    ELSE IF w.shader = "brain"
                    THEN briansBrainComputeShader(cellStateIn, w.uniformBuffer,
                                                  c[1], c[2], c[3])
                    ELSE cellStateIn[i]], Total(size))
      Copied(cellStateOut) ==
        [w EXCEPT !.stateCellBuffers[outputBufferIndex + 1] = cellStateOut,
                  !.resultStagingBuffer = cellStateOut]
  IN IF w.shader = "standard" /\ layout = "rejected" THEN w
     ELSE Copied(Dispatched(w.stateCellBuffers[w.currentBufferIndex + 1]))

\* result[x][y][z] = resultData[cellIndex++], in the z, y, x loops
ComputeReadback(resultData, size) ==
  [x \in 1..size[1] |-> [y \in 1..size[2] |-> [z \in 1..size[3] |->
     resultData[TexIndex(size, x - 1, y - 1, z - 1) + 1]]]]

\* computeNextGenerationWebGPU(grid, ruleName) on the module state w
computeNextGenerationWebGPU(w, in, ruleName, hasWebGPU, layout) ==
  IF ~isValid3DGrid(in) THEN [wgpu |-> w, out |-> ReturnedNull]
  ELSE LET Ran(ran) ==
             [wgpu |-> [ran EXCEPT !.currentBufferIndex = 1 - @],
              out |-> Returned(ComputeReadback(ran.resultStagingBuffer,
                                               ran.gridSize))]
           Written(written) == Ran(SubmitCommands(written, layout))
           Second(second) ==
             IF ~second.ok THEN [wgpu |-> second.wgpu, out |-> ReturnedNull]
             ELSE Written([second.wgpu EXCEPT
                             !.stateCellBuffers[second.wgpu.currentBufferIndex + 1] =
                               CellData(in.a)])
           First(first) ==
             Second(IF first.ok /\ first.wgpu.gridSize # Dims(in.a)
                    THEN initializeWebGPU(
                           [first.wgpu EXCEPT !.webGPUInitialized = FALSE],
                           in.a, ruleName, hasWebGPU)
                    ELSE first)
       IN First(IF ~w.webGPUInitialized
                THEN initializeWebGPU(w, in.a, ruleName, hasWebGPU)
                ELSE [ok |-> TRUE, wgpu |-> w])

\* logResults(result, ruleName, currentGrid): on full grids it reads cells
\* only, prints, and resets the counter after three generations
logResults(w, result, currentGrid) ==
  IF ~isValid3DGrid(Arr(result)) \/ ~isValid3DGrid(Arr(currentGrid)) THEN w
  ELSE [w EXCEPT !.generationCount = IF @ >= 3 THEN 0 ELSE @]

\* the exported step with the CPU engine's function in the place of the
\* texture engine's step
calculateNextGeneration3DWebGPUOnCPU(s, w, in, ruleName, hasWebGPU, half) ==
  IF ~isValid3DGrid(in)
  THEN [gpu |-> s, wgpu |-> w, out |-> Returned(createEmpty3DGrid(1, 1, 1))]
  ELSE LET counted == [w EXCEPT !.generationCount = @ + 1]
           Stepped(result) ==
             IF result.throws THEN [gpu |-> s, wgpu |-> counted, out |-> Thrown]
             ELSE [gpu |-> s, wgpu |-> logResults(counted, result.a, in.a),
                   out |-> result]
       IN Stepped(calculateNextGeneration3D(in, ruleName))

\* calculateNextGeneration3D(currentGrid, ruleName) of the compute-buffer
\* engine, on the gpuInstance s and the module state w, with hasWebGPU the
\* answer of isWebGPUSupported.  Both branches of the probe call the texture
\* engine's step; what it throws is caught, and the catch block calls the
\* texture engine's step once more, outside any try.
calculateNextGeneration3DWebGPU(s, w, in, ruleName, hasWebGPU, half) ==
  IF ~isValid3DGrid(in)
  THEN [gpu |-> s, wgpu |-> w, out |-> Returned(createEmpty3DGrid(1, 1, 1))]
  ELSE LET counted == [w EXCEPT !.generationCount = @ + 1]
           Logged(r) ==
             IF ~r.out.throws
             THEN [gpu |-> r.gpu, wgpu |-> logResults(counted, r.out.a, in.a),
                   out |-> r.out]
             ELSE [gpu |-> r.gpu, wgpu |-> counted, out |-> Thrown]
           Tried(tried) ==
             IF ~tried.out.throws THEN Logged(tried)
             ELSE Logged(calculateNextGeneration3DGPU(tried.gpu, in, ruleName, half))
       IN Tried(IF ~hasWebGPU
                THEN calculateNextGeneration3DGPU(s, in, ruleName, half)
                ELSE calculateNextGeneration3DGPU(s, in, ruleName, half))

(***************************************************************************)
(* Grids and rule names the callers pass.                                  *)
(***************************************************************************)
Min3(a, b, c) ==
  IF a <= b /\ a <= c THEN a ELSE IF b <= c THEN b ELSE c

\* createInitial3DGrid(sizeX, sizeY, sizeZ, 'sphere'): a cell is set when
\* |sqrt(dx*dx + dy*dy + dz*dz) - min(sizes)/4| < 0.8, here multiplied by 20
\* and squared
SpherePattern(sizeX, sizeY, sizeZ) ==
  LET centerX == sizeX \div 2
      centerY == sizeY \div 2
      centerZ == sizeZ \div 2
      radius20 == 5 * Min3(sizeX, sizeY, sizeZ)
  IN [x \in 1..sizeX |-> [y \in 1..sizeY |-> [z \in 1..sizeZ |->
        LET dx == (x - 1) - centerX
            dy == (y - 1) - centerY
            dz == (z - 1) - centerZ
            d2 == dx * dx + dy * dy + dz * dz
        IN IF /\ (radius20 - 16 < 0
                  \/ 400 * d2 > (radius20 - 16) * (radius20 - 16))
              /\ 400 * d2 < (radius20 + 16) * (radius20 + 16)
           THEN 1 ELSE 0]]]

Sphere6 == SpherePattern(6, 6, 6)

\* N x N x N, only (0,0,0) alive
Corner(N) ==
  [x \in 1..N |-> [y \in 1..N |-> [z \in 1..N |->
     IF x = 1 /\ y = 1 /\ z = 1 THEN 1 ELSE 0]]]

\* 3 x 3 x 3 with six alive cells: on this torus every cell is a neighbor of
\* every other cell
Dense3 ==
  [x \in 1..3 |-> [y \in 1..3 |-> [z \in 1..3 |->
     IF x = 1 /\ z <= 2 THEN 1 ELSE 0]]]

\* 4 x 4 x 4: an alive 2 x 2 x 3 block, two alive cells across the x and y
\* borders, and three dying cells
Blob4 ==
  [x \in 1..4 |-> [y \in 1..4 |-> [z \in 1..4 |->
     IF \/ (x <= 2 /\ y <= 2 /\ z <= 3)
        \/ (x = 4 /\ y = 1 /\ z = 1)
        \/ (x = 1 /\ y = 4 /\ z = 2)
     THEN 1
     ELSE IF <<x, y, z>> \in {<<3, 1, 2>>, <<3, 3, 3>>, <<4, 4, 4>>}
     THEN 2 ELSE 0]]]

\* 2 x 3 x 4 with dead, alive and dying cells
Mixed234 ==
  [x \in 1..2 |-> [y \in 1..3 |-> [z \in 1..4 |-> (x + 2 * y + z) % 3]]]

\* 2 x 2 x 3 with dead, alive and dying cells
Mixed223 ==
  [x \in 1..2 |-> [y \in 1..2 |-> [z \in 1..3 |-> (x + y + z) % 3]]]

\* 2 x 2 x 2 with three alive cells
Dense222 ==
  [x \in 1..2 |-> [y \in 1..2 |-> [z \in 1..2 |->
     IF x + y + z <= 4 /\ <<x, y, z>> # <<1, 1, 1>> THEN 1 ELSE 0]]]

\* 3 x 3 x 3, only a dying cell at (0,0,0)
Dying3 ==
  [x \in 1..3 |-> [y \in 1..3 |-> [z \in 1..3 |->
     IF x = 1 /\ y = 1 /\ z = 1 THEN 2 ELSE 0]]]

ValidGrids == {Corner(3), Corner(4), Dense3, Blob4, Mixed234, Dying3}

\* [], [[]], [[[]]]: a zero dimension
ZeroDimGrids == {<<>>, << <<>> >>, << << <<>> >> >>}

\* 2 x 2 x 2 by the first plane and row, with a later plane missing, a later
\* row missing, a later row shorter
RaggedGrids ==
  { << << <<1, 0>>, <<0, 1>> >>, <<>> >>,
    << << <<1, 0>>, <<0, 1>> >>, << <<1, 1>> >> >>,
    << << <<1, 0>>, <<0, 1>> >>, << <<1, 1>>, <<1>> >> >> }

CPUInputs ==
  {JsNull} \cup {Arr(a) : a \in ValidGrids \cup ZeroDimGrids \cup RaggedGrids}

\* the grids and rule names of the calls on the engines that keep a session
SessionInputs == {JsNull} \cup {Arr(a) : a \in {Corner(3), Mixed234, Dying3}}

\* names that are not keys of the table: one that nothing defines, and one
\* that Object.prototype defines
UnknownRuleNames == {"seeds3d", "constructor"}

RuleNames == RuleKeys \cup UnknownRuleNames

SessionRuleNames ==
  {"conway3d", "briansbrain3d", "checkerboard"} \cup UnknownRuleNames

\* the grids and rule names of the calls on the compute-buffer engine
ComputeInputs == {JsNull} \cup {Arr(a) : a \in {Mixed223, Dense222}}

ComputeRuleNames == {"conway3d", "briansbrain3d", "checkerboard", "constructor"}

(***************************************************************************)
(* The callers.  A behaviour drives one engine, or the texture engine and   *)
(* the compute-buffer engine that shares its instance; the other engines   *)
(* share nothing.  last is the latest call, with the sessions as they were before it;      *)
(* chain is the grid of the latest call that chose its own grid, followed  *)
(* by the grids returned since, each passed back in as the next input.     *)
(***************************************************************************)
NoCall ==
  [engine |-> "none", rule |-> "", in |-> JsNull, out |-> Returned(<<>>),
   pre |-> [gpu |-> NewGPU, tf |-> NewTF, wgpu |-> NewWebGPU]]

\* the modules as loaded, no call made yet
InitEngines ==
  /\ gpu = NewGPU
  /\ tf = NewTF
  /\ last = NoCall
  /\ chain = <<>>
  /\ nfresh = 0
  /\ wgpu = NewWebGPU
  /\ probe = FALSE

\* no array on the heap, no call of a stateless function, no component
InitRest ==
  /\ heap = <<>>
  /\ held = [in |-> 0, inValue |-> <<>>, out |-> 0, writes |-> 0]
  /\ args = <<>>
  /\ ret = <<>>
  /\ app = <<>>

\* the runs of the exported steps, none of which reaches a WGSL compiler
Init ==
  /\ InitEngines
  /\ unormHalf \in {127, 128}
  /\ wgslUniformArrays = "rejected"
  /\ InitRest

Record(engine, in, ruleName, out, fresh) ==
  /\ last' = [engine |-> engine, rule |-> ruleName, in |-> in, out |-> out,
              pre |-> [gpu |-> gpu, tf |-> tf, wgpu |-> wgpu]]
  /\ chain' = IF fresh
              THEN IF out.throws THEN <<in.a>> ELSE <<in.a, out.a>>
              ELSE IF out.throws THEN chain ELSE Append(chain, out.a)
  /\ nfresh' = IF fresh THEN nfresh + 1 ELSE nfresh
  /\ UNCHANGED unormHalf

CallCPU(in, ruleName, fresh) ==
  /\ last.engine \in {"none", "cpu"}
  /\ Record("cpu", in, ruleName, calculateNextGeneration3D(in, ruleName), fresh)
  /\ UNCHANGED <<gpu, tf, computeVars, restVars>>

CallGPU(in, ruleName, fresh) ==
  /\ last.engine \in {"none", "gpu", "webgpu"}
  /\ LET r == calculateNextGeneration3DGPU(gpu, in, ruleName, unormHalf)
     IN /\ gpu' = r.gpu
        /\ Record("gpu", in, ruleName, r.out, fresh)
  /\ UNCHANGED <<tf, computeVars, restVars>>

CallTF(in, ruleName, fresh) ==
  /\ last.engine \in {"none", "tf"}
  /\ LET r == calculateNextGeneration3DTF(tf, in, ruleName)
     IN /\ tf' = r.tf
        /\ Record("tf", in, ruleName, r.out, fresh)
  /\ UNCHANGED <<gpu, computeVars, restVars>>

CanFeed ==
  /\ ~last.out.throws
  /\ Len(chain) >= 2
  /\ Len(chain) - 2 < MaxFeed

StepCPU ==
  /\ nfresh < MaxFresh
  /\ \E in \in SessionInputs, ruleName \in SessionRuleNames :
       CallCPU(in, ruleName, TRUE)

StepGPU ==
  /\ nfresh < MaxFresh
  /\ \E in \in SessionInputs, ruleName \in SessionRuleNames :
       CallGPU(in, ruleName, TRUE)

StepTF ==
  /\ nfresh < MaxFresh
  /\ \E in \in SessionInputs, ruleName \in SessionRuleNames :
       CallTF(in, ruleName, TRUE)

FeedCPU == CanFeed /\ CallCPU(Arr(last.out.a), last.rule, FALSE)

FeedGPU == CanFeed /\ CallGPU(Arr(last.out.a), last.rule, FALSE)

FeedTF == CanFeed /\ CallTF(Arr(last.out.a), last.rule, FALSE)

Next == StepCPU \/ StepGPU \/ StepTF \/ FeedCPU \/ FeedGPU \/ FeedTF

Spec == Init /\ [][Next]_vars

\* the CPU engine's function applied to every grid and rule name, and to its
\* own results
ApplyCPU ==
  /\ nfresh = 0
  /\ \E in \in CPUInputs, ruleName \in RuleNames : CallCPU(in, ruleName, TRUE)

NextCPU == ApplyCPU \/ FeedCPU

SpecCPU == Init /\ [][NextCPU]_vars

\* the runs of the backend comparison: each engine iterated from the sphere
SphereCPU ==
  /\ nfresh = 0
  /\ \E ruleName \in RuleNames : CallCPU(Arr(Sphere6), ruleName, TRUE)

SphereGPU ==
  /\ nfresh = 0
  /\ \E ruleName \in RuleNames : CallGPU(Arr(Sphere6), ruleName, TRUE)

SphereTF ==
  /\ nfresh = 0
  /\ \E ruleName \in RuleNames : CallTF(Arr(Sphere6), ruleName, TRUE)

NextSphere ==
  SphereCPU \/ SphereGPU \/ SphereTF \/ FeedCPU \/ FeedGPU \/ FeedTF

SpecSphere == Init /\ [][NextSphere]_vars

\* a call of the compute-buffer engine's exported step; the probe answers
\* as the browser and the adapter decide
CallWebGPU(in, ruleName, hasWebGPU, fresh) ==
  /\ last.engine \in {"none", "gpu", "webgpu"}
  /\ LET Stepped(r) == /\ gpu' = r.gpu
                        /\ wgpu' = r.wgpu
                        /\ Record("webgpu", in, ruleName, r.out, fresh)
     IN Stepped(calculateNextGeneration3DWebGPU(gpu, wgpu, in, ruleName,
                                                hasWebGPU, unormHalf))
  /\ probe' = hasWebGPU
  /\ UNCHANGED <<tf, wgslUniformArrays, restVars>>

StepWebGPU ==
  /\ nfresh < MaxFresh
  /\ \E in \in ComputeInputs, ruleName \in ComputeRuleNames, hasWebGPU \in BOOLEAN :
       CallWebGPU(in, ruleName, hasWebGPU, TRUE)

FeedWebGPU ==
  /\ CanFeed
  /\ \E hasWebGPU \in BOOLEAN :
       CallWebGPU(Arr(last.out.a), last.rule, hasWebGPU, FALSE)

\* the texture engine's own step, called between the calls above
StepTexture ==
  /\ nfresh < MaxFresh
  /\ \E in \in ComputeInputs, ruleName \in ComputeRuleNames :
       CallGPU(in, ruleName, TRUE)

\* a call of computeNextGenerationWebGPU
CallCompute(in, ruleName, hasWebGPU, fresh) ==
  /\ last.engine \in {"none", "compute"}
  /\ LET Stepped(r) == /\ wgpu' = r.wgpu
                        /\ Record("compute", in, ruleName, r.out, fresh)
     IN Stepped(computeNextGenerationWebGPU(wgpu, in, ruleName, hasWebGPU,
                                            wgslUniformArrays))
  /\ probe' = hasWebGPU
  /\ UNCHANGED <<gpu, tf, wgslUniformArrays, restVars>>

StepCompute ==
  /\ nfresh < MaxFresh
  /\ \E in \in ComputeInputs, ruleName \in ComputeRuleNames, hasWebGPU \in BOOLEAN :
       CallCompute(in, ruleName, hasWebGPU, TRUE)

FeedCompute ==
  /\ CanFeed
  /\ last.out # ReturnedNull
  /\ \E hasWebGPU \in BOOLEAN :
       CallCompute(Arr(last.out.a), last.rule, hasWebGPU, FALSE)

\* the runs of computeNextGenerationWebGPU, which no texture is part of
InitCompute ==
  /\ InitEngines
  /\ unormHalf = 128
  /\ wgslUniformArrays \in {"rejected", "packed"}
  /\ InitRest

NextCompute == StepCompute \/ FeedCompute

SpecCompute == InitCompute /\ [][NextCompute]_vars

NextWebGPU == StepWebGPU \/ FeedWebGPU \/ StepTexture

SpecWebGPU == Init /\ [][NextWebGPU]_vars

(***************************************************************************)
(* The grids as JavaScript objects.  heap[id] is an array object: the      *)
(* outer array of a grid holds the ids of its planes, a plane the ids of   *)
(* its rows, a row its cells.  A grid in the caller's hands is the id of   *)
(* its outer array.  The engines keep typed arrays and tensors filled cell *)
(* by cell, never a reference to a grid's arrays.                          *)
(***************************************************************************)
\* Array(sizeX).fill(Array(sizeY).fill(Array(sizeZ).fill(0))): one row object
\* and one plane object, referenced from every index
createEmpty3DGridOnHeapFilledOnce(h, sizeX, sizeY, sizeZ) ==
  h \o << [x \in 1..sizeX |-> Len(h) + 2],
          [y \in 1..sizeY |-> Len(h) + 3],
          [z \in 1..sizeZ |-> 0] >>

\* createEmpty3DGrid(sizeX, sizeY, sizeZ): each map callback makes a new
\* array; the outer array gets id Len(h) + 1
createEmpty3DGridOnHeap(h, sizeX, sizeY, sizeZ) ==
  h \o << [x \in 1..sizeX |-> Len(h) + 1 + x] >>
    \o [x \in 1..sizeX |->
          [y \in 1..sizeY |-> Len(h) + 1 + sizeX + (x - 1) * sizeY + y]]
    \o [k \in 1..(sizeX * sizeY) |-> [z \in 1..sizeZ |-> 0]]

\* the x, y, z loops storing value[x][y][z] into grid[x][y][z]: a row object
\* ends with the cells of the last (x, y) that reaches it
StoreCells(h, grid, value) ==
  [id \in 1..Len(h) |->
     LET writers == {w \in (1..Len(value)) \X (1..Len(value[1])) :
                       h[h[grid][w[1]]][w[2]] = id}
         lastWriter == CHOOSE w \in writers :
                         \A v \in writers :
                           v[1] < w[1] \/ (v[1] = w[1] /\ v[2] <= w[2])
     IN IF writers = {} THEN h[id] ELSE value[lastWriter[1]][lastWriter[2]]]

\* a step's result: createEmpty3DGrid, then the loops that fill it
NewGridOnHeap(h, value) ==
  StoreCells(createEmpty3DGridOnHeap(h, Len(value), Len(value[1]),
                                     Len(value[1][1])),
             Len(h) + 1, value)

\* the grid value read through a reference
Deref(h, grid) ==
  [x \in 1..Len(h[grid]) |->
     [y \in 1..Len(h[h[grid][x]]) |-> h[h[h[grid][x]][y]]]]

\* grid[x][y][z] = v by the caller
StoreCell(h, grid, x, y, z, v) ==
  [h EXCEPT ![h[h[grid][x + 1]][y + 1]][z + 1] = v]

\* each engine's step, and whether WebGPU is available
HeapEngines ==
  {<<"cpu", FALSE>>, <<"gpu", FALSE>>, <<"tf", FALSE>>, <<"webgpu", FALSE>>,
   <<"compute", TRUE>>}

\* engine e's step on the current sessions
EngineStep(e, in, ruleName, hasWebGPU) ==
  LET Texture(r) == [gpu |-> r.gpu, tf |-> tf, wgpu |-> wgpu, out |-> r.out]
      Tensor(r) == [gpu |-> gpu, tf |-> r.tf, wgpu |-> wgpu, out |-> r.out]
      Delegating(r) == [gpu |-> r.gpu, tf |-> tf, wgpu |-> r.wgpu, out |-> r.out]
      Compute(r) == [gpu |-> gpu, tf |-> tf, wgpu |-> r.wgpu, out |-> r.out]
  IN CASE e = "cpu" ->
            [gpu |-> gpu, tf |-> tf, wgpu |-> wgpu,
             out |-> calculateNextGeneration3D(in, ruleName)]
       [] e = "gpu" ->
            Texture(calculateNextGeneration3DGPU(gpu, in, ruleName, unormHalf))
       [] e = "tf" ->
            Tensor(calculateNextGeneration3DTF(tf, in, ruleName))
       [] e = "webgpu" ->
            Delegating(calculateNextGeneration3DWebGPU(gpu, wgpu, in, ruleName,
                                                       hasWebGPU, unormHalf))
       [] e = "compute" ->
            Compute(computeNextGenerationWebGPU(wgpu, in, ruleName, hasWebGPU,
                                                wgslUniformArrays))

\* the caller passes the grid it made, or the grid the last step returned
HeapStep ==
  /\ nfresh < MaxFresh
  /\ \E e \in HeapEngines, grid \in {held.in, held.out} \ {0},
        ruleName \in {"conway3d", "life3d", "briansbrain3d", "checkerboard"} :
       LET Stepped(in, r, built) ==
             /\ gpu' = r.gpu
             /\ tf' = r.tf
             /\ wgpu' = r.wgpu
             /\ probe' = e[2]
             /\ Record(e[1], in, ruleName, r.out, TRUE)
             /\ heap' = IF built THEN NewGridOnHeap(heap, r.out.a) ELSE heap
             /\ held' = [held EXCEPT !.in = grid, !.inValue = in.a,
                                     !.out = IF built THEN Len(heap) + 1 ELSE 0]
           Returns(in, r) == Stepped(in, r, ~r.out.throws /\ r.out # ReturnedNull)
           Passed(in) == Returns(in, EngineStep(e[1], in, ruleName, e[2]))
       IN /\ last.engine \in {"none", e[1]}
          /\ Passed(Arr(Deref(heap, grid)))
  /\ UNCHANGED <<wgslUniformArrays, args, ret, app>>

\* the caller overwrites a corner cell of the grid the last step returned
\* with the next cell value
HeapWrite ==
  /\ held.out # 0
  /\ held.writes < MaxWrites
  /\ \E far \in BOOLEAN :
       LET d == Dims(Deref(heap, held.out))
           c == IF far THEN <<d[1] - 1, d[2] - 1, d[3] - 1>> ELSE <<0, 0, 0>>
           v == (At(Deref(heap, held.out), c[1], c[2], c[3]) + 1) % 3
       IN heap' = StoreCell(heap, held.out, c[1], c[2], c[3], v)
  /\ held' = [held EXCEPT !.writes = @ + 1]
  /\ UNCHANGED <<gpu, tf, last, chain, nfresh, unormHalf, computeVars, args, ret, app>>

InitHeap ==
  /\ InitEngines
  /\ unormHalf \in {127, 128}
  /\ wgslUniformArrays \in {"rejected", "packed"}
  /\ args = <<>> /\ ret = <<>> /\ app = <<>>
  /\ \E g \in {Dense222, Mixed223} :
       /\ heap = NewGridOnHeap(<<>>, g)
       /\ held = [in |-> 1, inValue |-> g, out |-> 0, writes |-> 0]

NextHeap == HeapStep \/ HeapWrite

SpecHeap == InitHeap /\ [][NextHeap]_vars

(***************************************************************************)
(* The functions that keep no state, each applied once to arguments drawn  *)
(* when the behaviour starts.                                              *)
(***************************************************************************)
\* the flat array an engine's upload loop makes of a grid
Upload(engine, grid) ==
  CASE engine = "texture" -> TextureData(grid)
    [] engine = "compute" -> CellData(grid)
    [] engine = "tensor" -> TensorData(grid)

\* the grid an engine's decode loop makes of a flat array
Decode(engine, data, size, ruleName) ==
  CASE engine = "texture" -> GPUReadback(data, size)
    [] engine = "compute" -> ComputeReadback(data, size)
    [] engine = "tensor" -> TFReadback(data, size, ruleName)

\* a flat array that is zero except for an alive cell's value at index k
OneHot(engine, size, k) ==
  Filled([i \in 1..Total(size) |->
           IF i - 1 # k THEN 0
           ELSE CASE engine = "texture" -> 255
                  [] engine = "compute" -> 1
                  [] engine = "tensor" -> 2], Total(size))

\* the loops of one engine on one grid: the upload, the decode of a one-hot
\* array, and the decode of the upload
FlattenArgs ==
  UNION {{[fn |-> "flatten", engine |-> e, grid |-> g, k |-> k, rule |-> r] :
            e \in {"texture", "compute", "tensor"},
            k \in 0..(Total(Dims(g)) - 1),
            r \in {"conway3d", "briansbrain3d"}} : g \in {Mixed223, Mixed234}}

ApplyFlatten ==
  /\ args.fn = "flatten"
  /\ ret = <<>>
  /\ ret' = [upload |-> Upload(args.engine, args.grid),
             decoded |-> Decode(args.engine,
                                OneHot(args.engine, Dims(args.grid), args.k),
                                Dims(args.grid), args.rule),
             roundTrip |-> Decode(args.engine, Upload(args.engine, args.grid),
                                  Dims(args.grid), args.rule)]
  /\ UNCHANGED <<gpu, tf, last, chain, nfresh, unormHalf, computeVars, heap, held, args, app>>

\* the cells the pattern branches store 1 into by offsets from the centre,
\* in range or not: arms of half-length n along the three axes, and with box
\* the 3 x 3 x 3 box less its centre and the six cells next to it
CentreStores(size, n, box) ==
  LET centerX == size[1] \div 2
      centerY == size[2] \div 2
      centerZ == size[3] \div 2
      Abs(v) == IF v < 0 THEN -v ELSE v
  IN {<<centerX + i, centerY, centerZ>> : i \in (-n)..n}
     \cup {<<centerX, centerY + i, centerZ>> : i \in (-n)..n}
     \cup {<<centerX, centerY, centerZ + i>> : i \in (-n)..n}
     \cup IF box
          THEN {<<centerX + d[1], centerY + d[2], centerZ + d[3]>> :
                  d \in {e \in {-1, 0, 1} \X {-1, 0, 1} \X {-1, 0, 1} :
                           Abs(e[1]) + Abs(e[2]) + Abs(e[3]) >= 2}}
          ELSE {}

\* Math.random() < 0.3 at cell (x, y, z), for four ways the draws can fall
Drawn(draw, x, y, z) ==
  CASE draw = "none" -> FALSE
    [] draw = "all" -> TRUE
    [] draw = "even" -> (x + y + z) % 2 = 0
    [] draw = "odd" -> (x + y + z) % 2 = 1

\* the empty grid after grid[x][y][z] = 1 for the stores with x and y in
\* range, and for the cells within reach of the centre that are drawn: a
\* store at a negative z makes a property, not an element; a store at z past
\* the end lengthens the row, leaving holes
GridWithStores(size, stores, reach, draw) ==
  [x \in 1..size[1] |-> [y \in 1..size[2] |->
     LET zs == {t[3] : t \in {u \in stores : u[1] = x - 1 /\ u[2] = y - 1 /\ u[3] >= 0}}
         top == IF zs = {} THEN 0 ELSE 1 + CHOOSE m \in zs : \A k \in zs : k <= m
         len == IF top > size[3] THEN top ELSE size[3]
         near(c, centre) == c >= centre - reach /\ c <= centre + reach
     IN [z \in 1..len |->
           IF z - 1 \in zs THEN 1
           ELSE IF z - 1 >= size[3] THEN Undefined
           ELSE IF /\ near(x - 1, size[1] \div 2) /\ near(y - 1, size[2] \div 2)
                   /\ near(z - 1, size[3] \div 2)
                   /\ Drawn(draw, x - 1, y - 1, z - 1)
                THEN 1 ELSE 0]]]

\* a pattern argument: a name, or nothing
Named(name) == [given |-> TRUE, name |-> name]
Omitted == [given |-> FALSE, name |-> ""]

\* createInitial3DGrid(sizeX, sizeY, sizeZ, pattern) with the draws of
\* Math.random given.  Reading [centerY] or storing [centerZ] through a plane
\* or a row that is not there is a TypeError.
createInitial3DGrid(size, patternArg, draw) ==
  LET pattern == IF patternArg.given THEN patternArg.name ELSE "checkerboard"
      quarter == size[1] \div 4
      stores == IF pattern = "cross"
                THEN CentreStores(size, IF quarter < 3 THEN quarter ELSE 3, FALSE)
                ELSE CentreStores(size, 2, TRUE)
      outside == \E t \in stores :
                   t[1] < 0 \/ t[1] >= size[1] \/ t[2] < 0 \/ t[2] >= size[2]
      far == size[1] + size[2] + size[3]
  IN IF pattern = "checkerboard" \/ pattern = "default"
     THEN Returned(GridWithStores(size, {}, far, "even"))
     ELSE IF pattern = "random"
     THEN Returned(GridWithStores(size, {}, far, draw))
     ELSE IF pattern = "sphere"
     THEN Returned(SpherePattern(size[1], size[2], size[3]))
     ELSE IF outside THEN Thrown
     ELSE IF pattern = "cross"
     THEN Returned(GridWithStores(size, stores, 0, "none"))
     ELSE Returned(GridWithStores(size, stores, 4, draw))

PatternArgs ==
  {[fn |-> "createInitial3DGrid", size |-> sz, pattern |-> pt, draw |-> dr] :
     sz \in {<<5, 5, 5>>, <<6, 5, 7>>, <<5, 5, 4>>, <<4, 5, 5>>, <<5, 3, 5>>,
             <<3, 3, 3>>},
     pt \in {Omitted} \cup {Named(nm) : nm \in {"checkerboard", "default", "cross",
                                               "random", "sphere", "composite", ""}},
     dr \in {"none", "all", "even", "odd"}}

ApplyCreateInitial3DGrid ==
  /\ args.fn = "createInitial3DGrid"
  /\ ret = <<>>
  /\ ret' = createInitial3DGrid(args.size, args.pattern, args.draw)
  /\ UNCHANGED <<gpu, tf, last, chain, nfresh, unormHalf, computeVars, heap, held, args, app>>

\* Number.prototype.toString(2) of a non-negative integer: its binary digits,
\* most significant first, "0" for zero
RECURSIVE toBinaryString(_)
toBinaryString(n) ==
  IF n < 2 THEN <<n>> ELSE Append(toBinaryString(n \div 2), n % 2)

\* decimalToBinaryArray(decimalRule): eight zeros for a number outside
\* 0..255, otherwise the binary string padded on the left with '0' to eight
\* characters and split into digits
decimalToBinaryArrayLsbFirst(decimalRule) ==
  IF decimalRule < 0 \/ decimalRule > 255 THEN [i \in 1..8 |-> 0]
  ELSE [i \in 1..8 |-> (decimalRule \div (2 ^ (i - 1))) % 2]

decimalToBinaryArray(decimalRule) ==
  IF decimalRule < 0 \/ decimalRule > 255 THEN [i \in 1..8 |-> 0]
  ELSE LET binaryString == toBinaryString(decimalRule)
       IN [i \in 1..(8 - Len(binaryString)) |-> 0] \o binaryString

\* calculateNextGeneration(currentGeneration, ruleNumber) of the 1D automaton;
\* rows are 1-based here, ruleBinary[7 - pattern] is element 8 - pattern
calculateNextGeneration(currentGeneration, ruleNumber) ==
  LET len == Len(currentGeneration)
      ruleBinary == decimalToBinaryArray(ruleNumber)
      cell(i) == currentGeneration[i + 1]
      pattern(i) == 4 * cell((i - 1 + len) % len) + 2 * cell(i)
                      + cell((i + 1) % len)
  IN IF len = 0 THEN <<>>
     ELSE [i \in 1..len |-> ruleBinary[8 - pattern(i - 1)]]

RECURSIVE Rows(_)
Rows(n) ==
  IF n = 0 THEN {<<>>}
  ELSE Rows(n - 1) \cup {Append(r, b) : r \in {q \in Rows(n - 1) : Len(q) = n - 1}, b \in {0, 1}}

RowArgs ==
  {[fn |-> "calculateNextGeneration", row |-> r, rule |-> n] :
     r \in Rows(MaxRow), n \in -1..256}

ApplyCalculateNextGeneration ==
  /\ args.fn = "calculateNextGeneration"
  /\ ret = <<>>
  /\ ret' = Returned(calculateNextGeneration(args.row, args.rule))
  /\ UNCHANGED <<gpu, tf, last, chain, nfresh, unormHalf, computeVars, heap, held, args, app>>

\* the rule arrays the two engines build for a rule of the table, each
\* consulted for a neighbor count, next to the CPU engine's includes
RuleDecisionArgs ==
  {[fn |-> "ruleDecision", ruleName |-> r, count |-> n] :
     r \in BSRuleKeys, n \in 0..26}

ApplyRuleDecision ==
  /\ args.fn = "ruleDecision"
  /\ ret = <<>>
  /\ ret' = LET rule == RULE_DEFINITIONS[args.ruleName]
                uniformBuffer == createComputePipelines(NewWebGPU, args.ruleName).wgpu.uniformBuffer
            IN [texture |-> [birth |-> PresenceDecides(PresenceArray(rule.birth), args.count),
                             survival |-> PresenceDecides(PresenceArray(rule.survival),
                                                          args.count)],
                compute |-> [birth |-> PresenceDecides(SubSeq(uniformBuffer, 5, 12),
                                                       args.count),
                             survival |-> PresenceDecides(SubSeq(uniformBuffer, 13, 20),
                                                          args.count)],
                cpu |-> [birth |-> Includes(rule.birth, args.count),
                         survival |-> Includes(rule.survival, args.count)]]
  /\ UNCHANGED <<gpu, tf, last, chain, nfresh, unormHalf, computeVars, heap, held, args, app>>

InitPure ==
  /\ InitEngines
  /\ unormHalf = 128
  /\ wgslUniformArrays = "rejected"
  /\ heap = <<>>
  /\ held = [in |-> 0, inValue |-> <<>>, out |-> 0, writes |-> 0]
  /\ app = <<>>
  /\ args \in FlattenArgs \cup PatternArgs \cup RowArgs \cup RuleDecisionArgs
  /\ ret = <<>>

NextPure ==
  \/ ApplyFlatten
  \/ ApplyCreateInitial3DGrid
  \/ ApplyCalculateNextGeneration
  \/ ApplyRuleDecision

SpecPure == InitPure /\ [][NextPure]_vars

(***************************************************************************)
(* App (App.jsx): the 3D simulation loop, its handlers and the WebGPU      *)
(* capability check.  A grid is held by the identity of its array object   *)
(* (the number of grids set so far); a render and the effects it re-runs   *)
(* follow the state change that caused them in the same step.              *)
(***************************************************************************)
NoInterval ==
  [armed |-> FALSE, gpuBackend |-> "webgl", isWebGPUAvailable |-> FALSE, grid3D |-> 0,
   gridLength |-> 0]

DEFAULT_GRID_SIZE_3D == 20

\* the sizes the resolution controls are set to here: the presets low and
\* medium
GridSizes3D == {10, 20}

\* the state after the first render: the useState initial values, no interval
\* (isRunning3D is false), and the capability check started by the mount
NewApp ==
  [activeView |-> "1d", isRunning3D |-> FALSE, gpuBackend |-> "webgl",
   isWebGPUAvailable |-> FALSE, grid3D |-> 0, generationCount3D |-> 0,
   gridSize3D |-> DEFAULT_GRID_SIZE_3D, gridLength |-> DEFAULT_GRID_SIZE_3D,
   rule3D |-> "checkerboard", stoppedBy |-> "mount",
   effect |-> NoInterval, steps |-> <<>>, checks |-> <<"webgl">>, tick |-> <<>>]

\* the text of the backend badge for the rendered state
BackendLabel(gpuBackend, isWebGPUAvailable) ==
  IF gpuBackend = "tensorflow" THEN "TensorFlow.js"
  ELSE IF gpuBackend = "webgpu"
  THEN (IF isWebGPUAvailable THEN "WebGPU Compute (Dev Mode)"
        ELSE "WebGPU (Falling back to WebGL)")
  ELSE "WebGL Shaders"

\* the render after state `old' became `new': the simulation effect is cleaned
\* up and run again when one of its dependencies changed (isWebGPUAvailable
\* is not one of them), capturing the values of this render; the capability
\* check is started again when gpuBackend changed
Rendered(old, new) ==
  LET deps(a) == <<a.activeView, a.isRunning3D, a.grid3D, a.rule3D, a.gpuBackend>>
      effect == IF deps(new) = deps(old) THEN new.effect
                ELSE IF new.activeView = "3d" /\ new.isRunning3D
                THEN [armed |-> TRUE, gpuBackend |-> new.gpuBackend,
                      isWebGPUAvailable |-> new.isWebGPUAvailable,
                      grid3D |-> new.grid3D, gridLength |-> new.gridLength]
                ELSE NoInterval
      checks == IF new.gpuBackend # old.gpuBackend
                THEN Append(new.checks, new.gpuBackend)
                ELSE new.checks
  IN [new EXCEPT !.effect = effect, !.checks = checks]

AppStep(new) ==
  /\ app # <<>>
  /\ app' = Rendered(app, new)
  /\ UNCHANGED <<gpu, tf, last, chain, nfresh, unormHalf, computeVars, heap, held, args, ret>>

handleViewChange ==
  /\ app # <<>>
  /\ \E view \in {"1d", "3d"} :
       AppStep([app EXCEPT !.isRunning3D = FALSE, !.activeView = view,
                           !.stoppedBy = "handleViewChange"])

handleStart3D ==
  /\ app.activeView = "3d"
  /\ AppStep([app EXCEPT !.isRunning3D = TRUE, !.stoppedBy = ""])

handlePause3D ==
  /\ app.activeView = "3d"
  /\ AppStep([app EXCEPT !.isRunning3D = FALSE, !.stoppedBy = "handlePause3D"])

handleReset3D ==
  /\ app.activeView = "3d"
  /\ app.grid3D + Len(app.steps) < MaxGrids
  /\ AppStep([app EXCEPT !.isRunning3D = FALSE, !.grid3D = @ + 1,
                         !.gridLength = app.gridSize3D,
                         !.generationCount3D = 0, !.stoppedBy = "handleReset3D"])

\* the rule select is disabled while the simulation runs
handleRuleChange3D ==
  /\ app.activeView = "3d"
  /\ ~app.isRunning3D
  /\ app.grid3D + Len(app.steps) < MaxGrids
  /\ \E newRule \in {"checkerboard", "conway3d"} :
       AppStep([app EXCEPT !.rule3D = newRule, !.isRunning3D = FALSE,
                           !.grid3D = @ + 1, !.gridLength = app.gridSize3D,
                           !.generationCount3D = 0,
                           !.stoppedBy = "handleRuleChange3D"])

\* the resolution slider and the preset select are disabled while the
\* simulation runs
handleGridSizeChange3D ==
  /\ app.activeView = "3d"
  /\ ~app.isRunning3D
  /\ app.grid3D + Len(app.steps) < MaxGrids
  /\ \E newSize \in GridSizes3D :
       AppStep(IF newSize = app.gridSize3D THEN app
               ELSE IF app.isRunning3D THEN [app EXCEPT !.gridSize3D = newSize]
               ELSE [app EXCEPT !.gridSize3D = newSize, !.grid3D = @ + 1,
                                !.gridLength = newSize, !.generationCount3D = 0])

\* the backend select is disabled while the simulation runs
handleGpuBackendChange ==
  /\ app.activeView = "3d"
  /\ ~app.isRunning3D
  /\ Len(app.checks) < MaxChecks
  /\ \E backend \in {"webgl", "tensorflow", "webgpu"} :
       AppStep([app EXCEPT !.gpuBackend = backend])

\* one call of the interval's callback, with the values its effect captured
Tick3D ==
  /\ app.effect.armed
  /\ app.grid3D + Len(app.steps) < MaxGrids
  /\ LET c == app.effect
         awaited == c.gpuBackend = "webgpu" /\ c.isWebGPUAvailable
         tick == [engine |-> IF c.gpuBackend = "tensorflow" THEN "tensor"
                             ELSE IF awaited THEN "compute" ELSE "texture",
                  gpuBackend |-> app.gpuBackend,
                  isWebGPUAvailable |-> app.isWebGPUAvailable,
                  label |-> BackendLabel(app.gpuBackend, app.isWebGPUAvailable),
                  inFlight |-> Len(app.steps)]
     IN IF awaited
        THEN /\ Len(app.steps) < MaxInFlight
             /\ AppStep([app EXCEPT !.steps = Append(@, [grid3D |-> c.grid3D,
                                                         gridLength |-> c.gridLength]),
                                    !.tick = tick])
        ELSE AppStep([app EXCEPT !.grid3D = @ + 1, !.generationCount3D = @ + 1,
                                 !.tick = tick])

\* the awaited step of an earlier tick resolves: the rest of that callback,
\* which sets the grid computed from the grid the tick captured
StepResolves ==
  /\ app.steps # <<>>
  /\ \E i \in 1..Len(app.steps) :
       AppStep([app EXCEPT !.steps = SubSeq(@, 1, i - 1) \o SubSeq(@, i + 1, Len(@)),
                           !.grid3D = @ + 1,
                           !.gridLength = app.steps[i].gridLength,
                           !.generationCount3D = @ + 1])

\* a capability check completes with the probe's answer, `supported', or with
\* an error; gpuBackend below is the value its effect captured
CheckResolves ==
  /\ app.checks # <<>>
  /\ \E i \in 1..Len(app.checks), supported \in BOOLEAN :
       LET gpuBackend == app.checks[i]
           rest == SubSeq(app.checks, 1, i - 1)
                     \o SubSeq(app.checks, i + 1, Len(app.checks))
       IN AppStep([app EXCEPT !.checks = rest,
                              !.isWebGPUAvailable = supported,
                              !.gpuBackend = IF ~supported /\ gpuBackend = "webgpu"
                                             THEN "webgl" ELSE @])

InitApp ==
  /\ InitEngines
  /\ unormHalf = 128
  /\ wgslUniformArrays = "rejected"
  /\ heap = <<>>
  /\ held = [in |-> 0, inValue |-> <<>>, out |-> 0, writes |-> 0]
  /\ args = <<>>
  /\ ret = <<>>
  /\ app = NewApp

NextApp ==
  \/ handleViewChange
  \/ handleStart3D
  \/ handlePause3D
  \/ handleReset3D
  \/ handleRuleChange3D
  \/ handleGridSizeChange3D
  \/ handleGpuBackendChange
  \/ Tick3D
  \/ StepResolves
  \/ CheckResolves

SpecApp == InitApp /\ [][NextApp]_vars

(***************************************************************************)
(* App (App.jsx): the 1D simulation, with the 1D view shown.  The effect   *)
(* of the 1D loop captures rule1D, which is one of its dependencies, so a  *)
(* tick works with the rule of the last render; the history it works on is *)
(* the one React hands to its updater.                                     *)
(***************************************************************************)
INITIAL_1D_CELL_COUNT == 51

MAX_HISTORY_LENGTH_1D == 200

\* the rules typed into the rule field, the cells clicked, and the number
\* of ticks after a reset
Rules1D == {30, 90}
ClickCells1D == {25}
MaxTicks1D == 203

\* createInitial1DGeneration(): zeros, the middle cell 1
createInitial1DGeneration ==
  [i \in 1..INITIAL_1D_CELL_COUNT |->
     IF i - 1 = INITIAL_1D_CELL_COUNT \div 2 THEN 1 ELSE 0]

\* the updater with slice(0, MAX_HISTORY_LENGTH_1D): the variant that C30
\* has to tell from newHistory
newHistoryKeepingOldest(prevHistory, rule1D) ==
  LET currentGen == prevHistory[Len(prevHistory)]
      nextGen == calculateNextGeneration(currentGen, rule1D)
      appended == Append(prevHistory, nextGen)
  IN IF Len(appended) > MAX_HISTORY_LENGTH_1D
     THEN SubSeq(appended, 1, MAX_HISTORY_LENGTH_1D)
     ELSE appended

\* the updater a tick passes to setGenerationsHistory
newHistory(prevHistory, rule1D) ==
  LET currentGen == prevHistory[Len(prevHistory)]
      nextGen == calculateNextGeneration(currentGen, rule1D)
      appended == Append(prevHistory, nextGen)
  IN IF Len(appended) > MAX_HISTORY_LENGTH_1D
     THEN SubSeq(appended, Len(appended) - MAX_HISTORY_LENGTH_1D + 1, Len(appended))
     ELSE appended

NewApp1D ==
  [rule1D |-> 30, generationsHistory |-> <<createInitial1DGeneration>>,
   isRunning1D |-> FALSE, generationCount1D |-> 0]

App1DStep(new) ==
  /\ app' = new
  /\ UNCHANGED <<gpu, tf, last, chain, nfresh, unormHalf, computeVars, heap, held, args, ret>>

handleStart1D ==
  /\ app.generationsHistory # <<>>
  /\ App1DStep([app EXCEPT !.isRunning1D = TRUE])

handlePause1D ==
  /\ app.generationsHistory # <<>>
  /\ App1DStep([app EXCEPT !.isRunning1D = FALSE])

handleReset1D ==
  /\ app.generationsHistory # <<>>
  /\ App1DStep([app EXCEPT !.isRunning1D = FALSE,
                           !.generationsHistory = <<createInitial1DGeneration>>,
                           !.generationCount1D = 0])

\* the value of the rule field is clamped to 0..255; then handleReset1D
handleRuleChange1D ==
  /\ app.generationsHistory # <<>>
  /\ \E newRule \in Rules1D :
       App1DStep([app EXCEPT !.rule1D = IF newRule < 0 THEN 0
                                       ELSE IF newRule > 255 THEN 255 ELSE newRule,
                            !.isRunning1D = FALSE,
                            !.generationsHistory = <<createInitial1DGeneration>>,
                            !.generationCount1D = 0])

\* a click on a cell of the first row shown (rowIndex 0)
handleCellClick1D ==
  /\ ~app.isRunning1D
  /\ Len(app.generationsHistory) > 0
  /\ \E cellIndex \in ClickCells1D :
       App1DStep([app EXCEPT !.generationsHistory[1][cellIndex + 1] = 1 - @])

\* one call of the 1D interval's callback
Tick1D ==
  /\ app.isRunning1D
  /\ app.generationCount1D < MaxTicks1D
  /\ App1DStep([app EXCEPT !.generationsHistory = newHistory(@, app.rule1D),
                           !.generationCount1D = @ + 1])

Init1D ==
  /\ InitEngines
  /\ unormHalf = 128
  /\ wgslUniformArrays = "rejected"
  /\ heap = <<>>
  /\ held = [in |-> 0, inValue |-> <<>>, out |-> 0, writes |-> 0]
  /\ args = <<>>
  /\ ret = <<>>
  /\ app = NewApp1D

Next1D ==
  \/ handleStart1D
  \/ handlePause1D
  \/ handleReset1D
  \/ handleRuleChange1D
  \/ handleCellClick1D
  \/ Tick1D

Spec1D == Init1D /\ [][Next1D]_vars

(***************************************************************************)
(* The vocabulary of the properties.                                       *)
(***************************************************************************)
\* a valid grid: a full sizeX x sizeY x sizeZ array of cell values 0, 1, 2
IsGrid(a) ==
  /\ Len(a) >= 1 /\ Len(a[1]) >= 1 /\ Len(a[1][1]) >= 1
  /\ \A x \in 1..Len(a) :
       /\ Len(a[x]) = Len(a[1])
       /\ \A y \in 1..Len(a[x]) :
            /\ Len(a[x][y]) = Len(a[1][1])
            /\ \A z \in 1..Len(a[x][y]) : a[x][y][z] \in 0..2

Cells(g) == (0..(Len(g) - 1)) \X (0..(Len(g[1]) - 1)) \X (0..(Len(g[1][1]) - 1))

Cell(g, c) == At(g, c[1], c[2], c[3])

NeighborOffsets ==
  {d \in {-1, 0, 1} \X {-1, 0, 1} \X {-1, 0, 1} : d # <<0, 0, 0>>}

\* the cell at offset d from c on the torus
Wrapped(g, c, d) ==
  <<(c[1] + d[1]) % Len(g), (c[2] + d[2]) % Len(g[1]), (c[3] + d[3]) % Len(g[1][1])>>

\* the number of offsets whose cell on the torus has value 1
ToroidalCount(g, c) ==
  Cardinality({d \in NeighborOffsets : Cell(g, Wrapped(g, c, d)) = 1})

AsSet(s) == {s[i] : i \in 1..Len(s)}

\* the latest call was made on engine e with a valid grid
CalledWithGrid(e) == last.engine = e /\ ~last.in.null /\ IsGrid(last.in.a)

ReturnedGrid == ~last.out.throws /\ Dims(last.out.a) = Dims(last.in.a)

(***************************************************************************)
(* C1.  For every birth/survival rule of the table and every valid grid,   *)
(* the CPU engine's calculateNextGeneration3D sets a cell of the result to *)
(* 1 exactly when the input cell is 1 and its live-neighbor count is in    *)
(* the survival set, or the input cell is not 1 and its count is in the    *)
(* birth set, and to 0 otherwise.                                          *)
(***************************************************************************)
C1_Expected(g, ruleName, c) ==
  LET rule == RULE_DEFINITIONS[ruleName]
      n == ToroidalCount(g, c)
  IN IF \/ (Cell(g, c) = 1 /\ n \in AsSet(rule.survival))
        \/ (Cell(g, c) # 1 /\ n \in AsSet(rule.birth))
     THEN 1 ELSE 0

C1_BirthSurvival ==
  (CalledWithGrid("cpu") /\ last.rule \in BSRuleKeys) =>
    /\ ReturnedGrid
    /\ \A c \in Cells(last.in.a) :
         Cell(last.out.a, c) = C1_Expected(last.in.a, last.rule, c)

\* a call in which a live cell survives, a live cell dies, a dead cell is
\* born, a dead cell stays dead, and a dying cell takes the birth branch
C1_Witness ==
  /\ CalledWithGrid("cpu") /\ last.rule \in BSRuleKeys /\ ReturnedGrid
  /\ \E c \in Cells(last.in.a) : Cell(last.in.a, c) = 1 /\ Cell(last.out.a, c) = 1
  /\ \E c \in Cells(last.in.a) : Cell(last.in.a, c) = 1 /\ Cell(last.out.a, c) = 0
  /\ \E c \in Cells(last.in.a) : Cell(last.in.a, c) = 0 /\ Cell(last.out.a, c) = 1
  /\ \E c \in Cells(last.in.a) : Cell(last.in.a, c) = 0 /\ Cell(last.out.a, c) = 0
  /\ \E c \in Cells(last.in.a) : Cell(last.in.a, c) = 2 /\ Cell(last.out.a, c) = 1

(***************************************************************************)
(* C2.  Under 'briansbrain3d', with each returned grid fed back into the   *)
(* next step, a cell that is alive (1) is dying (2) in the next returned   *)
(* grid and dead (0) in the one after, and a dead cell whose count of      *)
(* state-1 neighbors is not 2 stays dead, on the CPU, texture and tensor   *)
(* engines.                                                                *)
(***************************************************************************)
C2_BriansBrain ==
  (/\ last.engine \in {"cpu", "gpu", "tf"}
   /\ last.rule = "briansbrain3d"
   /\ Len(chain) >= 2
   /\ IsGrid(chain[1])) =>
    \A j \in 1..(Len(chain) - 1) : \A c \in Cells(chain[1]) :
      /\ Cell(chain[j], c) = 1 => Cell(chain[j + 1], c) = 2
      /\ (Cell(chain[j], c) = 1 /\ j + 2 <= Len(chain)) => Cell(chain[j + 2], c) = 0
      /\ (Cell(chain[j], c) = 0 /\ ToroidalCount(chain[j], c) # 2) =>
           Cell(chain[j + 1], c) = 0

(***************************************************************************)
(* C3.  Under the static rule 'checkerboard' one step returns a grid equal *)
(* cell for cell to the input grid, for every valid grid with cell values  *)
(* in {0, 1, 2}, on the CPU, texture and tensor engines.                   *)
(***************************************************************************)
C3_StaticIdentity ==
  (/\ last.engine \in {"cpu", "gpu", "tf"}
   /\ last.rule = "checkerboard"
   /\ ~last.in.null
   /\ IsGrid(last.in.a)) =>
    (~last.out.throws /\ last.out.a = last.in.a)

(***************************************************************************)
(* C4.  For every rule name of the table, iterating the texture engine's   *)
(* step and the tensor engine's step from the 6x6x6 'sphere' grid gives,   *)
(* after 1, 2 and 3 generations, the same set of cells with value 1 as     *)
(* iterating the CPU engine's calculateNextGeneration3D.                   *)
(***************************************************************************)
RECURSIVE CPUGenerations(_, _, _)
CPUGenerations(g, ruleName, k) ==
  IF k = 0 THEN g
  ELSE calculateNextGeneration3D(Arr(CPUGenerations(g, ruleName, k - 1)), ruleName).a

AliveCells(g) == {c \in Cells(g) : Cell(g, c) = 1}

C4_BackendsAgree ==
  (/\ last.engine \in {"gpu", "tf"}
   /\ last.rule \in RuleKeys
   /\ Len(chain) >= 2
   /\ chain[1] = Sphere6) =>
    \A k \in 1..(Len(chain) - 1) :
      AliveCells(chain[k + 1]) = AliveCells(CPUGenerations(Sphere6, last.rule, k))

(***************************************************************************)
(* C5.  countLiveNeighbors3D(grid, x, y, z) is the number of offsets in    *)
(* {-1,0,1}^3 other than (0,0,0) whose cell, each coordinate taken modulo  *)
(* the grid's size, has value 1; so in an NxNxN grid, N >= 3, whose only   *)
(* alive cell is (0,0,0), every other cell with each coordinate in         *)
(* {N-1, 0, 1} has count 1 and every remaining cell has count 0.           *)
(***************************************************************************)
OnlyOriginAlive(g) ==
  /\ Len(g) >= 3 /\ Len(g[1]) = Len(g) /\ Len(g[1][1]) = Len(g)
  /\ \A c \in Cells(g) : Cell(g, c) = 1 <=> c = <<0, 0, 0>>

AroundOrigin(g, c) ==
  /\ c # <<0, 0, 0>>
  /\ \A i \in 1..3 : c[i] \in {Len(g) - 1, 0, 1}

C5_NeighborCount ==
  CalledWithGrid("cpu") =>
    \A c \in Cells(last.in.a) :
      /\ countLiveNeighbors3D(last.in.a, c[1], c[2], c[3])
           = ToroidalCount(last.in.a, c)
      /\ OnlyOriginAlive(last.in.a) =>
           countLiveNeighbors3D(last.in.a, c[1], c[2], c[3])
             = IF AroundOrigin(last.in.a, c) THEN 1 ELSE 0

\* the engine has counted on the 4x4x4 grid with only (0,0,0) alive: there
\* the cell across all three borders has count 1, and a cell two steps away
\* has count 0
C5_Witness ==
  /\ CalledWithGrid("cpu")
  /\ last.rule \in BSRuleKeys
  /\ OnlyOriginAlive(last.in.a)
  /\ Len(last.in.a) = 4
  /\ countLiveNeighbors3D(last.in.a, 3, 3, 3) = 1
  /\ countLiveNeighbors3D(last.in.a, 3, 0, 0) = 1
  /\ countLiveNeighbors3D(last.in.a, 2, 0, 0) = 0

(***************************************************************************)
(* C6.  The tensor engine's neighbor count of every cell, the cells on a   *)
(* face, edge or corner included, is the toroidal 26-neighbor count the    *)
(* CPU engine computes for the same grid; with only (0,0,0) alive in an    *)
(* NxNxN grid the cell (N-1,0,0) gets count 1.                             *)
(***************************************************************************)
C6_TensorCountToroidal ==
  (/\ CalledWithGrid("tf")
   /\ last.rule # "checkerboard"
   /\ \A c \in Cells(last.in.a) : Cell(last.in.a, c) \in {0, 1}) =>
    \A c \in Cells(last.in.a) :
      conv3d(TensorData(last.in.a), Dims(last.in.a), c[1], c[2], c[3])
        = 2 * countLiveNeighbors3D(last.in.a, c[1], c[2], c[3])

(***************************************************************************)
(* C7.  Under the special rule the neighbor count that decides the birth   *)
(* of a dead cell counts the neighbors in state 1 only, never a neighbor   *)
(* in the dying state (2), on the tensor engine as on the CPU engine, for  *)
(* grids that contain dying cells.  On the tensor engine it is stated for  *)
(* the cells whose 26 neighbors all lie inside the grid.                   *)
(***************************************************************************)
Interior(g, c) ==
  /\ c[1] >= 1 /\ c[1] + 1 < Len(g)
  /\ c[2] >= 1 /\ c[2] + 1 < Len(g[1])
  /\ c[3] >= 1 /\ c[3] + 1 < Len(g[1][1])

C7_DyingNotCounted ==
  (/\ last.engine \in {"cpu", "tf"}
   /\ last.rule = "briansbrain3d"
   /\ ~last.in.null
   /\ IsGrid(last.in.a)
   /\ \E c \in Cells(last.in.a) : Cell(last.in.a, c) = 2) =>
    /\ ReturnedGrid
    /\ \A c \in Cells(last.in.a) :
         (/\ Cell(last.in.a, c) = 0
          /\ (last.engine = "cpu" \/ Interior(last.in.a, c))) =>
           (Cell(last.out.a, c) = 1 <=> ToroidalCount(last.in.a, c) = 2)

(***************************************************************************)
(* C8.  For every rule name that is not a key of the rule table, each      *)
(* engine's step raises no error and returns the grid it returns for       *)
(* 'conway3d' on the same input grid.                                      *)
(***************************************************************************)
C8_Conway ==
  IF last.engine = "cpu" THEN calculateNextGeneration3D(last.in, "conway3d")
  ELSE IF last.engine = "gpu"
  THEN calculateNextGeneration3DGPU(last.pre.gpu, last.in, "conway3d", unormHalf).out
  ELSE calculateNextGeneration3DTF(last.pre.tf, last.in, "conway3d").out

C8_UnknownRuleFallsBack ==
  (last.engine \in {"cpu", "gpu", "tf"} /\ last.rule \notin RuleKeys) =>
    (~last.out.throws /\ last.out = C8_Conway)

(***************************************************************************)
(* C9.  The CPU engine's calculateNextGeneration3D never throws on         *)
(* malformed input: for a null grid, a grid with a zero dimension, and a   *)
(* ragged grid (a plane or row other than the first missing, or shorter    *)
(* than the first) it returns the 1x1x1 grid whose cell is 0.              *)
(***************************************************************************)
ZeroDimension(a) == Len(a) = 0 \/ Len(a[1]) = 0 \/ Len(a[1][1]) = 0

Ragged(a) ==
  /\ ~ZeroDimension(a)
  /\ \/ \E x \in 1..Len(a) : Len(a[x]) < Len(a[1])
     \/ \E x \in 1..Len(a) : \E y \in 1..Len(a[x]) : Len(a[x][y]) < Len(a[1][1])

Malformed(in) == in.null \/ ZeroDimension(in.a) \/ Ragged(in.a)

C9_MalformedGivesMinimal ==
  (last.engine = "cpu" /\ Malformed(last.in)) =>
    (~last.out.throws /\ last.out.a = createEmpty3DGrid(1, 1, 1))

(***************************************************************************)
(* C10.  In any sequence of step calls on the texture or the tensor engine *)
(* whose grids may differ in their dimensions, every call returns without  *)
(* throwing a grid of the dimensions of the grid passed to it, and the     *)
(* session's recorded size is those dimensions afterwards.                 *)
(***************************************************************************)
C10_DimensionsFollow ==
  (last.engine \in {"gpu", "tf"} /\ ~last.in.null /\ IsGrid(last.in.a)) =>
    /\ ReturnedGrid
    /\ (IF last.engine = "gpu" THEN gpu.size ELSE tf.size) = Dims(last.in.a)

(***************************************************************************)
(* C11.  When the capability probe answers false, the compute-buffer       *)
(* engine's step on a valid grid ends as the texture engine's step ends    *)
(* for the same grid and rule on the same instance: it resolves to the     *)
(* grid the texture engine's step returns, and where the texture engine's  *)
(* step throws it rejects.                                                 *)
(***************************************************************************)
C11_ProbeFalseDelegates ==
  (last.engine = "webgpu" /\ ~probe /\ ~last.in.null /\ IsGrid(last.in.a))
    => last.out = calculateNextGeneration3DGPU(last.pre.gpu, last.in, last.rule,
                                               unormHalf).out

\* a probe-false call on an instance an earlier call initialized, resolving
\* to a grid with an alive cell
C11_Witness ==
  /\ last.engine = "webgpu" /\ ~probe
  /\ ~last.in.null /\ IsGrid(last.in.a)
  /\ last.pre.gpu.initialized
  /\ ~last.out.throws
  /\ \E c \in Cells(last.out.a) : Cell(last.out.a, c) = 1

(***************************************************************************)
(* C12.  The compute-buffer engine's step always resolves to a grid and    *)
(* never rejects.                                                          *)
(***************************************************************************)
C12_AlwaysResolves ==
  last.engine = "webgpu" => (~last.out.throws /\ IsGrid(last.out.a))

(***************************************************************************)
(* C13.  The grid a step returns for grid g and rule r does not depend on  *)
(* the grids and rules of the earlier calls on the engine: it is the grid  *)
(* the same call returns on a freshly loaded engine.  Stated here for      *)
(* computeNextGenerationWebGPU where WebGPU is available.                  *)
(***************************************************************************)
C13_StepIgnoresHistory ==
  (last.engine = "compute" /\ probe /\ ~last.in.null /\ IsGrid(last.in.a))
    => last.out = computeNextGenerationWebGPU(NewWebGPU, last.in, last.rule,
                                              TRUE, wgslUniformArrays).out

(***************************************************************************)
(* C14.  A step leaves the grid passed to it as it was and returns a grid  *)
(* made of new arrays: the returned grid's outer array, planes and rows    *)
(* are all different objects, none of them is an object of the input grid, *)
(* and the input grid keeps its cells when the caller overwrites a cell of *)
(* the returned grid.                                                      *)
(***************************************************************************)
GridObjects(h, grid) ==
  {grid} \cup {h[grid][x] : x \in 1..Len(h[grid])}
         \cup {h[h[grid][x]][y] : x \in 1..Len(h[grid]), y \in 1..Len(h[h[grid][1]])}

ZMajorIndex(size, c) == c[3] * size[2] * size[1] + c[2] * size[1] + c[1]

XMajorIndex(size, c) == (c[1] * size[2] + c[2]) * size[3] + c[3]

\* the stored form of cell value v
Stored(engine, v) ==
  CASE engine = "texture" -> (v * 255) % 256
    [] engine = "compute" -> v
    [] engine = "tensor" -> 2 * v

\* the upload has every cell at its z-major index, or in the tensor engine
\* at its x-major index when xMajorForTensor, and the decode of the one-hot
\* array has its only nonzero cell at the cell of index k
FlattenedAt(xMajorForTensor) ==
  (args.fn = "flatten" /\ ret # <<>>) =>
    \A c \in Cells(args.grid) :
      LET size == Dims(args.grid)
          index == IF xMajorForTensor /\ args.engine = "tensor"
                   THEN XMajorIndex(size, c) ELSE ZMajorIndex(size, c)
      IN /\ ret.upload[index + 1] = Stored(args.engine, Cell(args.grid, c))
         /\ (Cell(ret.decoded, c) # 0) <=> (index = args.k)

C15_FlatIndexPerEngine == FlattenedAt(TRUE)

\* C15 as stated: every engine uses z*sizeY*sizeX + y*sizeX + x
C15_FlatIndexZMajor == FlattenedAt(FALSE)

\* the tensor engine's loops have run, on an index that the two layouts give
\* to different cells
C15_Witness ==
  /\ args.fn = "flatten" /\ ret # <<>>
  /\ args.engine = "tensor"
  /\ \E c \in Cells(args.grid) :
       /\ XMajorIndex(Dims(args.grid), c) = args.k
       /\ ZMajorIndex(Dims(args.grid), c) # args.k
       /\ Cell(ret.decoded, c) = 1

(***************************************************************************)
(* C16.  For every valid grid, an engine's upload loop followed by the     *)
(* same engine's decode loop gives back the grid.                          *)
(***************************************************************************)
C16_RoundTripIsIdentity ==
  (args.fn = "flatten" /\ ret # <<>>) => ret.roundTrip = args.grid

(***************************************************************************)
(* C17.  createInitial3DGrid called with a pattern name other than         *)
(* 'checkerboard', 'default', 'cross', 'random' and 'sphere', or with no   *)
(* pattern argument, returns a grid in which every cell of the five-cell   *)
(* arms and of the hollow shell around the centre is 1.                    *)
(***************************************************************************)
\* the offsets of the arms and of the shell
CompositeOffsets ==
  {d \in (-2..2) \X (-2..2) \X (-2..2) :
     LET a == [i \in 1..3 |-> IF d[i] < 0 THEN -d[i] ELSE d[i]]
     IN \/ a[1] + a[2] + a[3] = a[1] \/ a[1] + a[2] + a[3] = a[2]
        \/ a[1] + a[2] + a[3] = a[3]
        \/ (a[1] <= 1 /\ a[2] <= 1 /\ a[3] <= 1 /\ a[1] + a[2] + a[3] >= 2)}

\* the call returned a full grid whose composite cells are all 1
CompositeReturned ==
  /\ ~ret.throws
  /\ IsGrid(ret.a)
  /\ Dims(ret.a) = args.size
  /\ \A d \in CompositeOffsets :
       LET c == <<args.size[1] \div 2 + d[1], args.size[2] \div 2 + d[2],
                  args.size[3] \div 2 + d[3]>>
       IN c \in Cells(ret.a) /\ Cell(ret.a, c) = 1

C17_CompositePattern ==
  (/\ args.fn = "createInitial3DGrid" /\ ret # <<>>
   /\ \/ ~args.pattern.given
      \/ args.pattern.name \notin {"checkerboard", "default", "cross", "random", "sphere"})
    => CompositeReturned


(***************************************************************************)
(* C20.  For a rule number in 0..255 and a non-empty row of 0/1 cells the  *)
(* 1D calculateNextGeneration returns a row of the same length whose cell  *)
(* i is bit (4*left + 2*center + right) of the rule number, left and right *)
(* being the neighbours of cell i with wraparound; for a rule number       *)
(* outside 0..255 every cell of the result is 0.                           *)
(***************************************************************************)
RuleBit(n, k) == (n \div (2 ^ k)) % 2

C20_Rule1D ==
  (args.fn = "calculateNextGeneration" /\ ret # <<>> /\ Len(args.row) > 0) =>
    LET len == Len(args.row)
        left(i) == args.row[IF i = 1 THEN len ELSE i - 1]
        right(i) == args.row[IF i = len THEN 1 ELSE i + 1]
    IN /\ ~ret.throws
       /\ Len(ret.a) = len
       /\ \A i \in 1..len :
            ret.a[i] = IF args.rule \in 0..255
                       THEN RuleBit(args.rule, 4 * left(i) + 2 * args.row[i] + right(i))
                       ELSE 0

C20_Witness ==
  /\ args.fn = "calculateNextGeneration"
  /\ ret # <<>>
  /\ args.rule = 110
  /\ args.row = <<0, 1, 1, 0>>
  /\ ret.a = <<1, 1, 1, 0>>


(***************************************************************************)
(* C18.  In App's 3D loop no timer tick calls the engine's step while the  *)
(* step started by an earlier tick has not resolved: at most one step is   *)
(* in flight at any time.                                                  *)
(***************************************************************************)
C18_OneStepInFlight == app # <<>> => Len(app.steps) <= 1

(***************************************************************************)
(* C19.  A 3D tick invokes the compute-buffer engine's step only when      *)
(* gpuBackend is 'webgpu' and isWebGPUAvailable is true; when gpuBackend   *)
(* is 'webgpu' and isWebGPUAvailable is false the tick invokes the texture *)
(* engine's step and the label shown is the WebGL-fallback one.            *)
(***************************************************************************)
C19_BackendDispatch ==
  (app # <<>> /\ app.tick # <<>>) =>
    /\ app.tick.engine = "compute" =>
         (app.tick.gpuBackend = "webgpu" /\ app.tick.isWebGPUAvailable)
    /\ (app.tick.gpuBackend = "webgpu" /\ ~app.tick.isWebGPUAvailable) =>
         /\ app.tick.engine = "texture"
         /\ app.tick.label = "WebGPU (Falling back to WebGL)"


(***************************************************************************)
(* C21.  On the texture engine and the tensor engine a step whose grid has *)
(* the session's dimensions and whose rule differs from the session's      *)
(* rule, both being birth/survival rules, does not run initialize again:   *)
(* the renderer, textures, render targets, tensor and kernel stay.         *)
(***************************************************************************)
C21_RuleUpdatedInPlace ==
  LET pre == IF last.engine = "gpu" THEN last.pre.gpu ELSE last.pre.tf
      post == IF last.engine = "gpu" THEN gpu ELSE tf
  IN (/\ last.engine \in {"gpu", "tf"}
      /\ ~last.in.null
      /\ pre.initialized
      /\ pre.size = Dims(last.in.a)
      /\ pre.currentRule # last.rule
      /\ pre.currentRule \in BSRuleKeys
      /\ last.rule \in BSRuleKeys)
     => post.built = pre.built


(***************************************************************************)
(* C22.  A step reads one device copy and writes the other, and after a    *)
(* step without reconfiguration the copy the next step will read from      *)
(* holds, before any upload, the generation the step returned: textureA or *)
(* textureB by currentTexture on the texture engine, stateCellBuffers by   *)
(* currentBufferIndex on the compute-buffer engine.                        *)
(***************************************************************************)
C22_NextSourceHoldsResult ==
  /\ (/\ last.engine = "gpu"
      /\ ~last.in.null
      /\ ~last.out.throws
      /\ gpu.built = last.pre.gpu.built)
     => /\ gpu.currentTexture # last.pre.gpu.currentTexture
        /\ GPUReadback(IF gpu.currentTexture = "A" THEN gpu.textureA
                       ELSE gpu.textureB, gpu.size) = last.out.a
  /\ (/\ last.engine = "compute"
      /\ ~last.in.null
      /\ last.out # ReturnedNull
      /\ last.pre.wgpu.webGPUInitialized
      /\ last.pre.wgpu.gridSize = Dims(last.in.a))
     => /\ wgpu.currentBufferIndex # last.pre.wgpu.currentBufferIndex
        /\ ComputeReadback(wgpu.stateCellBuffers[wgpu.currentBufferIndex + 1],
                           wgpu.gridSize) = last.out.a


(***************************************************************************)
(* C23.  For 'briansbrain3d' computeNextGenerationWebGPU turns a canonical *)
(* grid (0 dead, 1 alive, 2 dying) into a canonical grid: an alive cell    *)
(* is dying, a dying cell is dead, and a dead cell is alive exactly when   *)
(* exactly two of its 26 wrapped neighbours are alive.                     *)
(***************************************************************************)
AliveNeighbours(grid, x, y, z) ==
  LET size == Dims(grid)
  IN Cardinality({i \in 1..27 :
       /\ LoopOffset(i) # <<0, 0, 0>>
       /\ At(grid, (x + LoopOffset(i)[1] + size[1]) % size[1],
                   (y + LoopOffset(i)[2] + size[2]) % size[2],
                   (z + LoopOffset(i)[3] + size[3]) % size[3]) = 1})

C23_BriansBrainCanonical ==
  (/\ last.engine = "compute"
   /\ last.rule = "briansbrain3d"
   /\ last.pre.wgpu.shader \in {"none", "brain"}
   /\ ~last.in.null
   /\ last.out # ReturnedNull)
  => LET size == Dims(last.in.a)
     IN /\ Dims(last.out.a) = size
        /\ \A x \in 0..(size[1] - 1), y \in 0..(size[2] - 1), z \in 0..(size[3] - 1) :
             At(last.out.a, x, y, z) =
               CASE At(last.in.a, x, y, z) = 1 -> 2
                 [] At(last.in.a, x, y, z) = 2 -> 0
                 [] OTHER -> IF AliveNeighbours(last.in.a, x, y, z) = 2
                             THEN 1 ELSE 0


C26_InitialGridShape ==
  (args.fn = "createInitial3DGrid" /\ ret # <<>>) =>
     /\ ~ret.throws
     /\ Len(ret.a) = args.size[1]
     /\ \A x \in 1..Len(ret.a) :
          /\ Len(ret.a[x]) = args.size[2]
          /\ \A y \in 1..Len(ret.a[x]) :
               /\ Len(ret.a[x][y]) = args.size[3]
               /\ \A z \in 1..Len(ret.a[x][y]) : ret.a[x][y][z] \in {0, 1}

(***************************************************************************)
(* C27.  While the 3D simulation is not running (after handleReset3D or    *)
(* handlePause3D and until the next handleStart3D) no tick, and no rest of *)
(* a tick whose awaited step was unresolved at the reset or pause, changes *)
(* grid3D or generationCount3D.                                            *)
(***************************************************************************)
C27_StoppedStaysStopped ==
  [][(/\ ~app.isRunning3D
      /\ app.stoppedBy \in {"handleReset3D", "handlePause3D"}
      /\ (Tick3D \/ StepResolves))
       => /\ app'.grid3D = app.grid3D
          /\ app'.generationCount3D = app.generationCount3D]_vars

(***************************************************************************)
(* C28.  The capability check changes gpuBackend, to 'webgl', only when    *)
(* the backend selected at the moment of the change is 'webgpu': a check   *)
(* started under 'webgpu' that completes after another backend has been    *)
(* selected leaves that selection alone.                                   *)
(***************************************************************************)
C28_CheckKeepsLaterSelection ==
  [][(CheckResolves /\ app'.gpuBackend # app.gpuBackend)
       => (app.gpuBackend = "webgpu" /\ app'.gpuBackend = "webgl")]_vars

(***************************************************************************)
(* C29.  After any sequence of handlers and ticks grid3D has exactly       *)
(* gridSize3D planes, rows per plane and cells per row.                    *)
(***************************************************************************)
C29_GridMatchesSize ==
  app # <<>> => app.gridLength = app.gridSize3D

(***************************************************************************)
(* C30.  After any sequence of 1D ticks, resets, rule changes and cell     *)
(* clicks generationsHistory holds at least one and at most                *)
(* MAX_HISTORY_LENGTH_1D generations; a tick on a full history drops the   *)
(* oldest generation, and the generation a tick computes is the last one.  *)
(***************************************************************************)
C30_HistoryBounded ==
  /\ [](/\ Len(app.generationsHistory) >= 1
        /\ Len(app.generationsHistory) <= MAX_HISTORY_LENGTH_1D)
  /\ [][Tick1D =>
          LET old == app.generationsHistory
              new == app'.generationsHistory
          IN /\ new[Len(new)] = calculateNextGeneration(old[Len(old)], app.rule1D)
             /\ IF Len(old) = MAX_HISTORY_LENGTH_1D
                THEN /\ Len(new) = MAX_HISTORY_LENGTH_1D
                     /\ \A i \in 1..(Len(new) - 1) : new[i] = old[i + 1]
                ELSE /\ Len(new) = Len(old) + 1
                     /\ \A i \in 1..Len(old) : new[i] = old[i]]_vars

\* a tick was made on a full history
C30_Witness ==
  /\ app.generationCount1D > MAX_HISTORY_LENGTH_1D
  /\ Len(app.generationsHistory) = MAX_HISTORY_LENGTH_1D
  /\ app.generationsHistory[MAX_HISTORY_LENGTH_1D] # app.generationsHistory[1]

====
